---- MODULE Spec2Model ----
(***************************************************************************)
(* Voice-channel lifecycle manager of the bot (src/cogs/vcmanager.py) and  *)
(* its persistence slice (src/database.py).                                *)
(*                                                                         *)
(* The program is a set of coroutines on one cooperative event loop.  A    *)
(* coroutine runs without interruption from one `await` of a platform call *)
(* to the next; a model action is exactly one such run: it starts with the *)
(* completion of the awaited call (whose effect on the platform is applied *)
(* at that moment) and ends where the next platform call is awaited.       *)
(* A platform call on a channel that no longer exists answers NotFound.    *)
(* One guild is connected.  Time is counted in minutes.                    *)
(***************************************************************************)
EXTENDS Integers, Sequences, FiniteSets, TLC

\* ------------------------------------------------------------------ bounds
MaxChannels == 6     \* channels the platform creates in one run
MaxTasks    == 4     \* coroutines alive at the same time
MaxTime     == 3     \* last minute the clock reaches
MaxLocks    == 3     \* asyncio.Lock objects created in one run

\* ------------------------------------------------------- program constants
PLATFORM_MAX_LIMIT == 99   \* "Discord の最大制限"
CLEANUP_SLEEP      == 1    \* _cleanup_lock sleeps 60 seconds = 1 minute

\* class VCType
NO_LIMIT   == "NO_LIMIT"
WITH_LIMIT == "WITH_LIMIT"
\* class VCOption
TEXT_CHANNEL          == "TEXT_CHANNEL"
NO_CONTROL            == "NO_CONTROL"
LOCK_NAME             == "LOCK_NAME"
NO_JOIN_LEAVE_LOG     == "NO_JOIN_LEAVE_LOG"
NO_OWNERSHIP_TRANSFER == "NO_OWNERSHIP_TRANSFER"
HIDE_FULL             == "HIDE_FULL"
\* class VCLocationMode
AUTO_CATEGORY == "AUTO_CATEGORY"
SAME_CATEGORY == "SAME_CATEGORY"
UNDER_HUB     == "UNDER_HUB"

\* ------------------------------------------------------------ identifiers
Humans     == {1, 2, 3}
Bots       == {4}
Members    == Humans \cup Bots
Hubs       == {1, 2}            \* hub voice channels
Categories == {3, 4}            \* category channels
Fixed      == Hubs \cup Categories
FirstId    == Cardinality(Fixed) + 1
ChannelIds == 1..(Cardinality(Fixed) + MaxChannels + 1)
TaskIds    == 1..MaxTasks
LockIds    == 1..MaxLocks
None       == "None"            \* Python None where the value is a string

\* ------------------------------------------------------------------ state
VARIABLES
    channels,              \* ids guild.get_channel resolves (hubs, categories, created)
    voice_ids,             \* ids that were created as voice channels
    user_limit,            \* platform user_limit of each voice channel
    deny_connect,          \* members with a connect=False overwrite, per channel
    everyone_ow,           \* the overwrite of the @everyone role on each voice channel
    voice,                 \* member -> voice channel the member is in (0: none)
    vorder,                \* guild._voice_states order: members in voice, oldest first
    next_id,               \* next channel id the platform hands out
    now,                   \* datetime.utcnow(), in minutes
    vc_systems,            \* self.vc_systems[guild]: storage_key -> system_data
    db_vc_systems,         \* table vc_systems: hub_vc_id -> row
    active_vcs,            \* keys of self.active_vcs
    vc_data,               \* the dict object behind each key (survives removal of the key)
    db_active_vcs,         \* table active_vcs: keys
    db_rows,               \* table active_vcs: vc_id -> row
    db_banned,             \* table user_vc_settings: owner -> banned users
    vc_creation_locks,     \* self.vc_creation_locks: member -> lock object (0: no entry)
    lock_objs,             \* asyncio.Lock objects: locked flag and waiter queue
    next_lock,             \* next lock object
    cleanups,              \* pending _cleanup_lock tasks: member -> wake-up times
    delayed_delete_tasks,  \* self.delayed_delete_tasks: vc_id -> task (0: no entry)
    tasks,                 \* coroutines: on_voice_state_update, _delayed_delete_worker, ...
    restored,              \* restore_from_database has run
    budget,                \* platform events the environment may still produce
    calc,                  \* argument and result of a function that is looked at on its own
    obs                    \* observations of what the handlers did (history)

vars == <<channels, voice_ids, user_limit, deny_connect, everyone_ow, voice, vorder, next_id, now,
          vc_systems, db_vc_systems, active_vcs, vc_data, db_active_vcs, db_rows,
          db_banned, vc_creation_locks, lock_objs, next_lock, cleanups,
          delayed_delete_tasks, tasks, restored, budget, calc, obs>>

\* The state as one value, so that the synchronous stretches of a coroutine
\* compose as functions from state to state.
St == [channels |-> channels, voice_ids |-> voice_ids, user_limit |-> user_limit,
       deny_connect |-> deny_connect, everyone_ow |-> everyone_ow, voice |-> voice, vorder |-> vorder,
       next_id |-> next_id, now |-> now, vc_systems |-> vc_systems,
       db_vc_systems |-> db_vc_systems, active_vcs |-> active_vcs, vc_data |-> vc_data,
       db_active_vcs |-> db_active_vcs, db_rows |-> db_rows, db_banned |-> db_banned,
       vc_creation_locks |-> vc_creation_locks, lock_objs |-> lock_objs,
       next_lock |-> next_lock, cleanups |-> cleanups,
       delayed_delete_tasks |-> delayed_delete_tasks, tasks |-> tasks,
       restored |-> restored, budget |-> budget, calc |-> calc, obs |-> obs, ok |-> TRUE]

Commit(s) ==
    /\ s.ok
    /\ channels' = s.channels /\ voice_ids' = s.voice_ids /\ user_limit' = s.user_limit
    /\ deny_connect' = s.deny_connect /\ everyone_ow' = s.everyone_ow
    /\ voice' = s.voice /\ vorder' = s.vorder
    /\ next_id' = s.next_id /\ now' = s.now /\ vc_systems' = s.vc_systems
    /\ db_vc_systems' = s.db_vc_systems /\ active_vcs' = s.active_vcs
    /\ vc_data' = s.vc_data /\ db_active_vcs' = s.db_active_vcs /\ db_rows' = s.db_rows
    /\ db_banned' = s.db_banned /\ vc_creation_locks' = s.vc_creation_locks
    /\ lock_objs' = s.lock_objs /\ next_lock' = s.next_lock /\ cleanups' = s.cleanups
    /\ delayed_delete_tasks' = s.delayed_delete_tasks /\ tasks' = s.tasks
    /\ restored' = s.restored /\ budget' = s.budget /\ calc' = s.calc /\ obs' = s.obs

\* ------------------------------------------------------ permission overwrites
\* The overwrites dict of _create_and_move_user_impl (lines 442-482) as a function
\* of the hub's hidden_roles and vc_roles and of the roles the guild has.  Its
\* keys are the @everyone role, the bot's own member and roles; a value gives
\* view_channel and connect, each True, False or None (not set).
Roles == {"r1", "r2", "r3"}
DEFAULT_ROLE == "@everyone"
ME == "me"

PermissionOverwrite(view_channel, connect) == [view_channel |-> view_channel, connect |-> connect]
NoOverwrite == PermissionOverwrite("None", "None")

\* Lines 443-446.
BaseOverwrites ==
    [k \in {DEFAULT_ROLE, ME} \cup Roles |->
        IF k \in Roles THEN NoOverwrite ELSE PermissionOverwrite("True", "True")]

\* Lines 450-458: the visibility step.
HiddenRolesStep(ow, hidden_roles, guild_roles) ==
    IF hidden_roles = {} THEN ow
    ELSE [k \in DOMAIN ow |->
            CASE k = DEFAULT_ROLE -> PermissionOverwrite("False", "False")
              [] k = ME -> PermissionOverwrite("True", "True")
              [] k \in hidden_roles \cap guild_roles -> PermissionOverwrite("True", "True")
              [] OTHER -> ow[k]]

\* Lines 461-482: the participant step.
VcRolesStep(ow, hidden_roles, vc_roles, guild_roles) ==
    IF vc_roles = {} THEN ow
    ELSE IF hidden_roles # {}
    THEN [k \in DOMAIN ow |->
            IF k \in vc_roles \cap guild_roles
            THEN PermissionOverwrite(IF ow[k].view_channel # "None"
                                     THEN ow[k].view_channel ELSE "True", "True")
            ELSE ow[k]]
    ELSE [k \in DOMAIN ow |->
            CASE k = DEFAULT_ROLE -> PermissionOverwrite("True", "False")
              [] k \in vc_roles \cap guild_roles -> PermissionOverwrite("True", "True")
              [] OTHER -> ow[k]]

overwrites(hidden_roles, vc_roles, guild_roles) ==
    VcRolesStep(HiddenRolesStep(BaseOverwrites, hidden_roles, guild_roles),
                hidden_roles, vc_roles, guild_roles)

\* ---------------------------------------------------------------- records
\* One self.active_vcs[vc_id] dict (lines 557-577, 582-583).  0 stands for a
\* missing id, number or timestamp (the clock starts at 1).
EmptyData ==
    [original_limit |-> 0, bot_count |-> 0, text_channel_id |-> 0,
     control_channel_id |-> 0, vc_type |-> None, category_id |-> 0, owner_id |-> 0,
     banned_users |-> {}, allowed_users |-> {}, is_locked |-> FALSE,
     skip_first_join_log |-> FALSE,
     options |-> {}, base_name |-> None, name_number |-> 0,
     delete_delay_minutes |-> 0, delete_ready_at |-> 0, system_data |-> 0]

\* One row of table active_vcs, as save_active_vc writes it.
ToRow(d) ==
    [original_limit |-> d.original_limit, bot_count |-> d.bot_count,
     text_channel_id |-> d.text_channel_id, control_channel_id |-> d.control_channel_id,
     vc_type |-> d.vc_type, category_id |-> d.category_id, owner_id |-> d.owner_id,
     banned_users |-> d.banned_users, allowed_users |-> d.allowed_users,
     is_locked |-> d.is_locked, options |-> d.options,
     delete_ready_at |-> d.delete_ready_at,
     delete_delay_minutes |-> d.delete_delay_minutes]

\* The dict get_active_vcs builds from a row: the columns, and nothing else.
FromRow(r) ==
    [EmptyData EXCEPT
        !.original_limit = r.original_limit, !.bot_count = r.bot_count,
        !.text_channel_id = r.text_channel_id,
        !.control_channel_id = r.control_channel_id, !.vc_type = r.vc_type,
        !.category_id = r.category_id, !.owner_id = r.owner_id,
        !.banned_users = r.banned_users, !.allowed_users = r.allowed_users,
        !.is_locked = r.is_locked,
        !.options = r.options, !.delete_ready_at = r.delete_ready_at,
        !.delete_delay_minutes = r.delete_delay_minutes]

EmptyRow == ToRow(EmptyData)

\* One system_data dict of self.vc_systems (lines 133-150).
SystemData(hub, type, limit, mode, cat, opts, locked, delay) ==
    [hub_vc_id |-> hub, vc_type |-> type, user_limit |-> limit, location_mode |-> mode,
     target_category_id |-> cat, options |-> opts, locked_name |-> locked,
     delete_delay_minutes |-> delay, hidden_roles |-> {}, vc_roles |-> {}]

NoSystem == SystemData(0, None, 0, None, 0, {}, None, 0)

\* One row of table vc_systems: the dict's fields and the category_id column.
\* The guild_id column is 1 for the guild the process serves.
SystemRow(category_id, sd) == [guild_id |-> 1, category_id |-> category_id, data |-> sd]
NoRow == SystemRow(0, NoSystem)

\* A coroutine and its local variables.
IdleTask ==
    [kind |-> "idle", pc |-> "-", member |-> 0, before |-> 0, after |-> 0, vc |-> 0,
     ret |-> "-", lk |-> 0, sys |-> 0, target |-> 0, todo |-> <<>>, ow |-> {},
     num |-> 0, base |-> None, banned |-> {}, wake |-> 0, cat |-> 0,
     perm |-> NoOverwrite]

NoLock == [locked |-> FALSE, waiters |-> <<>>]

\* Nothing is being computed on its own.
NoCalc == <<>>

NoObs ==
    [escaped |-> {},                          \* exceptions that left on_voice_state_update
     attempts |-> [c \in ChannelIds |-> 0],   \* channel.delete() calls issued, per channel
     row_deletes |-> [c \in ChannelIds |-> 0],\* delete_active_vc calls, per channel
     del_escaped |-> {},                      \* exceptions that left delete_user_vc
     noop_calls |-> 0,                        \* delete_user_vc calls that returned at once
     caught |-> {},                           \* exceptions create_and_move_user logged
     emptied |-> {},                          \* listener tasks whose event left the source
                                              \*   channel without a non-bot member
     heir |-> [t \in TaskIds |-> 0],          \* new owner chosen by the transfer of task t
     watch |-> [t \in TaskIds |-> {}],        \* banned humans present when that transfer
                                              \*   began who have not moved on their own since
     names |-> [c \in ChannelIds |-> <<>>],   \* base name, category and number in the
                                              \*   name of a locked-name channel
     last |-> <<>>]                           \* the last thing a handler decided

\* f"{member.name}・VC" (lines 404, 438)
DefaultName(m) ==
    CASE m = 1 -> "m1.VC" [] m = 2 -> "m2.VC" [] m = 3 -> "m3.VC" [] OTHER -> "bot.VC"

\* hub_vc.category: hub 1 sits in category 3, hub 2 at the top level of the guild.
HubCategory(h) == IF h = 1 THEN 3 ELSE 0

\* ---------------------------------------------------------------- helpers
Min(a, b) == IF a < b THEN a ELSE b
Inc2(n) == IF n < 3 THEN n + 1 ELSE n        \* a saturating counter for observations

\* VoiceChannel.members: the guild's voice states in order, filtered by channel.
ChannelMembers(s, ch) == SelectSeq(s.vorder, LAMBDA m : s.voice[m] = ch)
NonBotMembers(s, ch) == SelectSeq(s.vorder, LAMBDA m : s.voice[m] = ch /\ m \in Humans)

Range(q) == {q[i] : i \in 1..Len(q)}
Without(q, x) == SelectSeq(q, LAMBDA y : y # x)

\* guild.get_channel(id) is not None
ChannelExists(s, ch) == ch \in s.channels

\* The member's voice state changes on the platform; the guild cache follows.
SetVoice(s, m, ch) ==
    [s EXCEPT !.voice[m] = ch,
              !.vorder = IF ch = 0 THEN Without(s.vorder, m)
                         ELSE IF s.voice[m] = 0 THEN Append(s.vorder, m)
                         ELSE s.vorder]

\* The platform deletes a channel.  Members inside a deleted voice channel lose
\* their voice state; by then the key is gone from active_vcs (the same run of
\* delete_user_vc removes it), so the handlers of those events find nothing to do.
PlatformDelete(s, ch) ==
    [s EXCEPT !.channels = s.channels \ {ch},
              !.everyone_ow[ch] = NoOverwrite,
              !.obs.names[ch] = <<>>,
              !.voice = [m \in Members |-> IF s.voice[m] = ch THEN 0 ELSE s.voice[m]],
              !.vorder = SelectSeq(s.vorder, LAMBDA m : s.voice[m] # ch)]

IdleSlots(s) == {t \in TaskIds : s.tasks[t].kind = "idle"}
FreeSlot(s) == CHOOSE t \in IdleSlots(s) : \A u \in IdleSlots(s) : t <= u

\* loop.create_task / dispatch of an event: the coroutine takes the lowest free
\* slot; with no slot left the state is marked not ok and the step is not taken.
Spawn(s, task) ==
    IF IdleSlots(s) = {} THEN [s EXCEPT !.ok = FALSE]
    ELSE [s EXCEPT !.tasks[FreeSlot(s)] = task]

Observe(s, what) == [s EXCEPT !.obs.last = what]

\* The coroutine ends.
Finish(s, t) == [s EXCEPT !.tasks[t] = IdleTask, !.obs.emptied = @ \ {t}]

\* An exception leaves on_voice_state_update (discord.py logs it).
Escape(s, t, exc) == [Finish(s, t) EXCEPT !.obs.escaped = @ \cup {exc}]


\* ------------------------------------------------- deferred-deletion timers
\* A variant that ignores delete_ready_at.
can_delete_channel_now_unguarded(s, vc) == TRUE

\* _parse_delete_ready_at and _can_delete_channel_now (lines 302-320).
can_delete_channel_now(s, vc) ==
    IF vc \notin s.active_vcs THEN TRUE
    ELSE IF s.vc_data[vc].delete_delay_minutes = 0 THEN TRUE
    ELSE IF s.vc_data[vc].delete_ready_at = 0 THEN TRUE
    ELSE s.now >= s.vc_data[vc].delete_ready_at

\* task.cancel(): a worker that never ran is dropped; one that waits in a sleep
\* or in a platform call gets CancelledError at that await (the call's answer is
\* dropped) and runs its `finally` in a later step.
cancel_task(s, t2) ==
    IF s.tasks[t2].pc = "tm_start" THEN Finish(s, t2)
    ELSE [s EXCEPT !.tasks[t2].pc = "tm_cancelled",
                   !.obs.del_escaped =
                        IF s.tasks[t2].pc \in {"d_text", "d_ctrl", "d_vc"}
                        THEN @ \cup {"CancelledError"} ELSE @]

\* _cancel_delayed_delete_task (lines 338-344); cur is the running coroutine.
cancel_delayed_delete_task(s, vc, cur) ==
    LET t2 == s.delayed_delete_tasks[vc]
        s1 == [s EXCEPT !.delayed_delete_tasks[vc] = 0]
    IN  IF t2 = 0 \/ t2 = cur THEN s1 ELSE cancel_task(s1, t2)

\* A variant that starts the worker without keeping it under the channel id.
schedule_delayed_delete_task_unkeyed(s, vc) ==
    IF IdleSlots(s) = {} THEN [s EXCEPT !.ok = FALSE]
    ELSE [s EXCEPT !.tasks[FreeSlot(s)] =
                       [IdleTask EXCEPT !.kind = "timer", !.pc = "tm_start", !.vc = vc]]

\* _schedule_delayed_delete_task (lines 322-328)
schedule_delayed_delete_task(s, vc) ==
    LET t2 == s.delayed_delete_tasks[vc]
        s1 == IF t2 = 0 THEN s
              ELSE cancel_task([s EXCEPT !.delayed_delete_tasks[vc] = 0], t2)
    IN  IF IdleSlots(s1) = {} THEN [s1 EXCEPT !.ok = FALSE]
        ELSE [s1 EXCEPT !.tasks[FreeSlot(s1)] =
                            [IdleTask EXCEPT !.kind = "timer", !.pc = "tm_start", !.vc = vc],
                        !.delayed_delete_tasks[vc] = FreeSlot(s1)]

\* A variant that arms nothing at startup.
restore_delayed_delete_task_never(s, vc) == s

\* _restore_delayed_delete_task (lines 330-336)
restore_delayed_delete_task(s, vc) ==
    IF vc \notin s.active_vcs THEN s
    ELSE IF s.vc_data[vc].delete_ready_at = 0 THEN s
    ELSE schedule_delayed_delete_task(s, vc)

\* The `finally` of _delayed_delete_worker (lines 369-371): it pops whatever
\* entry the channel id has.
timer_finally(s, t) ==
    Finish([s EXCEPT !.delayed_delete_tasks[s.tasks[t].vc] = 0], t)

\* ------------------------------------------------------------ delete_user_vc
\* on_voice_state_update, lines 202-206: after a move, the source is looked at
\* again after asyncio.sleep(0.1).
move_phase(s, t) ==
    LET k == s.tasks[t]
    IN  IF k.before # 0 /\ k.after # 0 /\ k.before # k.after /\ k.before \in s.active_vcs
        THEN [s EXCEPT !.tasks[t].pc = "m_sleep"]
        ELSE Finish(s, t)

\* delete_user_vc returns to its caller.
delete_return(s, t) ==
    CASE s.tasks[t].ret = "leave" -> move_phase(s, t)
      [] s.tasks[t].ret = "timer" -> timer_finally(s, t)
      [] OTHER -> Finish(s, t)

\* Lines 1084-1094, after channel.delete() has answered: the row, the key, the timer.
\* `del` of a key that is gone raises KeyError, which line 1096 catches.
delete_finish(s, t) ==
    LET vc == s.tasks[t].vc
        s1 == [s EXCEPT !.db_active_vcs = @ \ {vc},
                        !.obs.row_deletes[vc] = Inc2(@)]
    IN  IF vc \in s1.active_vcs
        THEN delete_return(
                cancel_delayed_delete_task([s1 EXCEPT !.active_vcs = @ \ {vc}], vc, t), t)
        ELSE delete_return(s1, t)

\* Lines 1078-1080: channel.delete() is awaited.
delete_voice(s, t) ==
    [s EXCEPT !.tasks[t].pc = "d_vc", !.obs.attempts[s.tasks[t].vc] = Inc2(@)]

\* Lines 1069-1076: the control channel, if the dict names one that resolves.
delete_control(s, t) ==
    LET c == s.vc_data[s.tasks[t].vc].control_channel_id
    IN  IF c # 0 /\ ChannelExists(s, c)
        THEN [s EXCEPT !.tasks[t].pc = "d_ctrl", !.tasks[t].target = c,
                       !.obs.attempts[c] = Inc2(@)]
        ELSE delete_voice(s, t)

\* Lines 1060-1067: the text channel, if the dict names one that resolves.
delete_text(s, t) ==
    LET c == s.vc_data[s.tasks[t].vc].text_channel_id
    IN  IF c # 0 /\ ChannelExists(s, c)
        THEN [s EXCEPT !.tasks[t].pc = "d_text", !.tasks[t].target = c,
                       !.obs.attempts[c] = Inc2(@)]
        ELSE delete_control(s, t)

\* A variant without the check of line 1055.
delete_user_vc_unchecked(s, t, vc, ret) ==
    delete_text([s EXCEPT !.tasks[t].vc = vc, !.tasks[t].ret = ret], t)

\* delete_user_vc (lines 1052-1100), up to its first await.
delete_user_vc(s, t, vc, ret) ==
    LET s1 == [s EXCEPT !.tasks[t].vc = vc, !.tasks[t].ret = ret]
    IN  IF vc \notin s1.active_vcs
        THEN delete_return([s1 EXCEPT !.obs.noop_calls = Inc2(@),
                                      !.obs.last = <<"returned_at_once", vc>>], t)
        ELSE delete_text(s1, t)

\* An awaited delete() answers: the channel goes, or NotFound is caught.
delete_answer(s, c) == IF c \in s.channels THEN PlatformDelete(s, c) ELSE s


\* ----------------------------------------------------------- handle_vc_leave
\* Lines 267-272: with no non-bot member left and no guard in force, delete.
leave_check(s, t) ==
    LET b == s.tasks[t].before
    IN  IF b \in s.active_vcs /\ NonBotMembers(s, b) = <<>>
        THEN IF can_delete_channel_now(s, b)
             THEN delete_user_vc(Observe(s, <<"leave_deletes", b>>), t, b, "leave")
             ELSE move_phase(Observe(s, <<"leave_guarded", b>>), t)
        ELSE move_phase(s, t)

\* check_and_show_if_not_full (lines 944-964), up to vc.edit.
leave_show(s, t) ==
    LET b == s.tasks[t].before
    IN  IF b \notin s.active_vcs \/ HIDE_FULL \notin s.vc_data[b].options
        THEN leave_check(s, t)
        ELSE IF s.user_limit[b] > 0 /\ Len(ChannelMembers(s, b)) < s.user_limit[b]
             THEN [s EXCEPT !.tasks[t].pc = "l_show"]
             ELSE leave_check(s, t)

\* send_control_panel (lines 754-840), up to its first send.
send_control_panel(s, t, vc, control, pc, after) ==
    IF vc \notin s.active_vcs \/ ~ChannelExists(s, vc) \/ ~ChannelExists(s, control)
    THEN after
    ELSE [s EXCEPT !.tasks[t].pc = pc]

\* Lines 907-916: system_data is read from the dict (KeyError when the key is
\* gone) and the new control channel is created.
transfer_new_control(s, t) ==
    IF s.tasks[t].before \notin s.active_vcs THEN Escape(s, t, "KeyError")
    ELSE [s EXCEPT !.tasks[t].pc = "t_newctrl"]

\* Lines 892-905: with a control panel, the old control channel is deleted.
transfer_control(s, t) ==
    LET b == s.tasks[t].before
        c == s.vc_data[b].control_channel_id
    IN  IF b \notin s.active_vcs THEN Escape(s, t, "KeyError")
        ELSE IF NO_CONTROL \in s.vc_data[b].options THEN leave_show(s, t)
        ELSE IF c # 0 /\ ChannelExists(s, c)
             THEN [s EXCEPT !.tasks[t].pc = "t_delctrl", !.tasks[t].target = c]
             ELSE transfer_new_control(s, t)

\* A variant that disconnects nobody.
transfer_kick_nobody(s, t) ==
    [s EXCEPT !.tasks[t].pc = "t_edit",
              !.tasks[t].ow = s.deny_connect[s.tasks[t].before]
                                \cup s.tasks[t].banned]

\* Lines 870-887: banned members found in the channel are disconnected one by
\* one, then the overwrites (as read at line 880) are written back with
\* connect=False for every banned user.
transfer_kick(s, t) ==
    IF s.tasks[t].todo # <<>> THEN [s EXCEPT !.tasks[t].pc = "t_kick"]
    ELSE [s EXCEPT !.tasks[t].pc = "t_edit",
                   !.tasks[t].ow = s.deny_connect[s.tasks[t].before]
                                     \cup s.tasks[t].banned]

\* A variant without the two early returns of lines 847-858.
transfer_ownership_always(s, t) ==
    LET b  == s.tasks[t].before
        nb == NonBotMembers(s, b)
        new_owner == IF nb = <<>> THEN 0 ELSE nb[1]
    IN  IF b \notin s.active_vcs THEN leave_show(s, t)
        ELSE transfer_kick([s EXCEPT !.vc_data[b].owner_id = new_owner,
                                     !.vc_data[b].banned_users = {},
                                     !.tasks[t].banned = {},
                                     !.tasks[t].todo = <<>>], t)

\* transfer_ownership_on_leave (lines 842-868)
transfer_ownership_on_leave(s, t) ==
    LET b  == s.tasks[t].before
        nb == NonBotMembers(s, b)
    IN  IF b \notin s.active_vcs THEN leave_show(s, t)
        ELSE IF NO_OWNERSHIP_TRANSFER \in s.vc_data[b].options THEN leave_show(s, t)
        ELSE IF nb = <<>> THEN leave_show(s, t)
        ELSE LET new_owner == nb[1]
                 banned == s.db_banned[new_owner]
                 s1 == [s EXCEPT !.vc_data[b].owner_id = new_owner,
                                 !.vc_data[b].banned_users = banned,
                                 !.tasks[t].banned = banned,
                                 !.tasks[t].todo =
                                     SelectSeq(ChannelMembers(s, b),
                                               LAMBDA x : x \in Humans /\ x \in banned),
                                 !.obs.heir[t] = new_owner,
                                 !.obs.watch[t] =
                                     {x \in Humans : s.voice[x] = b /\ x \in banned}]
             IN  transfer_kick(s1, t)

\* Lines 260-265: the owner's departure hands the channel on.
leave_owner(s, t) ==
    LET b == s.tasks[t].before
    IN  IF b \notin s.active_vcs THEN Escape(s, t, "KeyError")
        ELSE IF s.tasks[t].member = s.vc_data[b].owner_id
             THEN transfer_ownership_on_leave(s, t)
             ELSE leave_show(s, t)

\* update_text_channel_permissions (lines 966-983); `after` is the state in
\* which the caller goes on when no call is awaited.
update_text_channel_permissions(s, t, vc, pc, after) ==
    LET c == s.vc_data[vc].text_channel_id
    IN  IF vc \notin s.active_vcs \/ c = 0 \/ ~ChannelExists(s, c) THEN after
        ELSE [s EXCEPT !.tasks[t].pc = pc, !.tasks[t].target = c]

leave_text(s, t) ==
    update_text_channel_permissions(s, t, s.tasks[t].before, "l_text", leave_owner(s, t))

\* log_vc_leave (lines 1034-1050)
log_vc_leave(s, t) ==
    LET b == s.tasks[t].before
    IN  IF b \notin s.active_vcs \/ NO_JOIN_LEAVE_LOG \in s.vc_data[b].options
        THEN leave_text(s, t)
        ELSE [s EXCEPT !.tasks[t].pc = "l_log"]

\* handle_bot_leave (lines 1001-1014).  Line 1009 reads VCType.LIMIT, an
\* attribute class VCType (lines 34-37) does not have: AttributeError, before
\* bot_count or the user limit is touched.
handle_bot_leave(s, t) ==
    Escape(Observe(s, <<"bot_leave", s.tasks[t].before>>), t, "AttributeError")

\* handle_vc_leave (lines 248-272)
handle_vc_leave(s, t) ==
    LET b == s.tasks[t].before
        m == s.tasks[t].member
    IN  IF b \in s.active_vcs /\ m \in Bots THEN handle_bot_leave(s, t)
        ELSE IF b \in s.active_vcs THEN log_vc_leave(s, t)
        ELSE leave_check(s, t)

\* on_voice_state_update, lines 198-200
leave_phase(s, t) ==
    LET k == s.tasks[t]
    IN  IF k.before # 0 /\ k.before # k.after THEN handle_vc_leave(s, t)
        ELSE move_phase(s, t)


\* ------------------------------------------------------ create_and_move_user
ProvPcs == {"p_create", "p_edit", "p_text", "p_move", "p_ctrl", "p_panel", "p_namemsg"}

\* asyncio.Lock.release(): the flag is cleared and the first waiter's future is
\* resolved; the waiter takes the lock only when the loop resumes it.
lock_release(s, lk) ==
    LET w  == s.lock_objs[lk].waiters
        s1 == [s EXCEPT !.lock_objs[lk].locked = FALSE]
    IN  IF w # <<>> /\ s.tasks[Head(w)].pc = "lock_wait"
        THEN [s1 EXCEPT !.tasks[Head(w)].pc = "lock_woken"]
        ELSE s1

\* Lines 288-291 and the end of `async with`: a _cleanup_lock task is created,
\* the lock is released, handle_vc_join returns (line 226) and
\* on_voice_state_update goes on with the leave phase.
prov_exit(s, t) ==
    LET m  == s.tasks[t].member
        s1 == [s EXCEPT !.cleanups[m] = Append(@, s.now + CLEANUP_SLEEP)]
    IN  leave_phase(lock_release(s1, s.tasks[t].lk), t)

\* A variant that logs the exception and keeps the member's lock.
prov_fail_holding(s, t, exc) == leave_phase([s EXCEPT !.obs.caught = @ \cup {exc}], t)

\* Lines 284-286: an exception of the implementation is logged.
prov_fail(s, t, exc) == prov_exit([s EXCEPT !.obs.caught = @ \cup {exc}], t)

\* Lines 647-652: the record is written to the store.
prov_save(s, t) ==
    LET vc == s.tasks[t].vc
    IN  IF vc \notin s.active_vcs THEN prov_exit(s, t)     \* KeyError, caught at 651
        ELSE prov_exit([s EXCEPT !.db_active_vcs = @ \cup {vc},
                                 !.db_rows[vc] = ToRow(s.vc_data[vc])], t)

\* Lines 626-645: no hub of this model has notifications enabled (line 702);
\* without the name lock the rename hint is sent into the voice channel.
prov_name_msg(s, t) ==
    LET vc == s.tasks[t].vc
    IN  IF LOCK_NAME \in s.vc_systems[s.tasks[t].sys].options THEN prov_save(s, t)
        ELSE IF ~ChannelExists(s, vc)
             THEN prov_exit([s EXCEPT !.active_vcs = @ \ {vc}], t)
             ELSE [s EXCEPT !.tasks[t].pc = "p_namemsg"]

\* Lines 608-620: the control channel is created unless NO_CONTROL is set.
prov_control(s, t) ==
    IF NO_CONTROL \in s.vc_systems[s.tasks[t].sys].options THEN prov_name_msg(s, t)
    ELSE [s EXCEPT !.tasks[t].pc = "p_ctrl"]

\* Lines 556-596: the record enters active_vcs, the deferred-deletion timer is
\* scheduled, and the text channel or the move is awaited.
prov_record(s, t) ==
    LET k   == s.tasks[t]
        sd  == s.vc_systems[k.sys]
        vc  == k.vc
        d0  == [EmptyData EXCEPT
                   !.original_limit = 0, !.bot_count = 0, !.vc_type = sd.vc_type,
                   !.category_id = k.cat, !.owner_id = k.member,
                   !.banned_users = k.banned, !.skip_first_join_log = TRUE,
                   !.options = sd.options, !.base_name = k.base,
                   !.name_number = k.num, !.system_data = k.sys]
        d   == IF sd.delete_delay_minutes # 0
               THEN [d0 EXCEPT !.delete_delay_minutes = sd.delete_delay_minutes,
                               !.delete_ready_at = s.now + sd.delete_delay_minutes]
               ELSE d0
        s1  == [s EXCEPT !.active_vcs = @ \cup {vc}, !.vc_data[vc] = d]
        s2  == IF sd.delete_delay_minutes # 0
               THEN schedule_delayed_delete_task(s1, vc) ELSE s1
    IN  IF ~s2.ok THEN s2
        ELSE IF ~ChannelExists(s2, vc)
             THEN prov_exit([s2 EXCEPT !.active_vcs = @ \ {vc}], t)
        ELSE IF TEXT_CHANNEL \in sd.options THEN [s2 EXCEPT !.tasks[t].pc = "p_text"]
        ELSE [s2 EXCEPT !.tasks[t].pc = "p_move"]

\* The `while number in existing_numbers` loop of lines 426-428.
RECURSIVE first_free(_, _)
first_free(number, existing_numbers) ==
    IF number \in existing_numbers THEN first_free(number + 1, existing_numbers)
    ELSE number

\* A variant that collects the numbers of every category.
existing_numbers_everywhere(s, base_name, target_category_id) ==
    {IF s.vc_data[v].name_number = 0 THEN 1 ELSE s.vc_data[v].name_number :
        v \in {x \in s.active_vcs : s.vc_data[x].base_name = base_name}}

\* Lines 419-423; a record without a number counts as number 1.
existing_numbers(s, base_name, target_category_id) ==
    {IF s.vc_data[v].name_number = 0 THEN 1 ELSE s.vc_data[v].name_number :
        v \in {x \in s.active_vcs : /\ s.vc_data[x].base_name = base_name
                                   /\ s.vc_data[x].category_id = target_category_id}}

\* Lines 409-415
target_category(sd) ==
    IF sd.location_mode \in {AUTO_CATEGORY, SAME_CATEGORY} THEN sd.target_category_id
    ELSE HubCategory(sd.hub_vc_id)

\* _create_and_move_user_impl, lines 391-532: the name is resolved and the
\* voice channel is requested from the platform.
prov_begin(s, t) ==
    LET k   == s.tasks[t]
        sd  == s.vc_systems[k.sys]
        locked == LOCK_NAME \in sd.options /\ sd.locked_name # None
        base_name == IF sd.locked_name = "" THEN DefaultName(k.member) ELSE sd.locked_name
        number == first_free(1, existing_numbers(s, base_name, target_category(sd)))
    IN  IF sd.location_mode \in {AUTO_CATEGORY, SAME_CATEGORY}
           /\ ~ChannelExists(s, sd.target_category_id)
        THEN prov_fail(s, t, "AttributeError")      \* line 494/505 on None
        ELSE
        [s EXCEPT !.tasks[t].pc = "p_create",
                  !.tasks[t].base = IF locked THEN base_name ELSE None,
                  !.tasks[t].num = IF locked THEN number ELSE 0,
                  !.tasks[t].cat = target_category(sd),
                  !.obs.last = IF locked
                               THEN <<"named", k.member, base_name, target_category(sd), number>>
                               ELSE s.obs.last]

\* create_and_move_user, lines 274-283: the member's lock is looked up or
\* created, then acquired (asyncio.Lock.acquire queues behind waiters).
create_and_move_user(s, t, key) ==
    LET m   == s.tasks[t].member
        s1  == IF s.vc_creation_locks[m] # 0 THEN s
               ELSE IF s.next_lock > MaxLocks THEN [s EXCEPT !.ok = FALSE]
               ELSE [s EXCEPT !.vc_creation_locks[m] = s.next_lock, !.next_lock = @ + 1]
        lk  == s1.vc_creation_locks[m]
        s2  == [s1 EXCEPT !.tasks[t].lk = lk, !.tasks[t].sys = key]
    IN  IF ~s1.ok THEN s1
        ELSE IF ~s2.lock_objs[lk].locked /\ s2.lock_objs[lk].waiters = <<>>
             THEN prov_begin([s2 EXCEPT !.lock_objs[lk].locked = TRUE], t)
             ELSE [s2 EXCEPT !.lock_objs[lk].waiters = Append(@, t),
                             !.tasks[t].pc = "lock_wait"]


\* ------------------------------------------------------------ handle_vc_join
\* check_and_hide_if_full (lines 922-942), up to vc.edit; then line 198.
join_hide(s, t) ==
    LET a == s.tasks[t].after
    IN  IF a \notin s.active_vcs \/ HIDE_FULL \notin s.vc_data[a].options
        THEN leave_phase(s, t)
        ELSE IF s.user_limit[a] > 0 /\ Len(ChannelMembers(s, a)) >= s.user_limit[a]
             THEN [s EXCEPT !.tasks[t].pc = "j_hide"]
             ELSE leave_phase(s, t)

join_text(s, t) ==
    update_text_channel_permissions(s, t, s.tasks[t].after, "j_text", join_hide(s, t))

\* log_vc_join (lines 1016-1032)
log_vc_join(s, t) ==
    LET a == s.tasks[t].after
    IN  IF a \notin s.active_vcs \/ NO_JOIN_LEAVE_LOG \in s.vc_data[a].options
        THEN join_text(s, t)
        ELSE [s EXCEPT !.tasks[t].pc = "j_log"]

\* handle_bot_join (lines 985-999).  Line 993 reads VCType.LIMIT, which class
\* VCType (lines 34-37) does not define: AttributeError.
handle_bot_join(s, t) ==
    Escape(Observe(s, <<"bot_join", s.tasks[t].after>>), t, "AttributeError")

\* handle_vc_join (lines 215-246)
handle_vc_join(s, t) ==
    LET a    == s.tasks[t].after
        m    == s.tasks[t].member
        keys == {k \in DOMAIN s.vc_systems : s.vc_systems[k].hub_vc_id = a}
    IN  IF keys # {} THEN create_and_move_user(s, t, CHOOSE k \in keys : TRUE)
        ELSE IF a \in s.active_vcs /\ m \in Bots THEN handle_bot_join(s, t)
        ELSE IF a \in s.active_vcs
             THEN IF s.vc_data[a].skip_first_join_log
                  THEN join_text([s EXCEPT !.vc_data[a].skip_first_join_log = FALSE], t)
                  ELSE log_vc_join(s, t)
        ELSE leave_phase(s, t)

\* on_voice_state_update, lines 192-196
on_voice_state_update(s, t) ==
    LET k == s.tasks[t]
    IN  IF k.after # 0 /\ k.after # k.before THEN handle_vc_join(s, t)
        ELSE leave_phase(s, t)

\* The gateway reports a voice state change: the cache is updated and the
\* listener is dispatched as a task of its own.
VoiceEvent(s, m, ch) ==
    LET s1 == SetVoice(s, m, ch)
        s2 == Spawn(s1, [IdleTask EXCEPT !.kind = "vsu", !.pc = "start", !.member = m,
                                         !.before = s.voice[m], !.after = ch])
        s3 == IF m \in Humans /\ ch # 0
              THEN [s2 EXCEPT !.obs.emptied =
                                  {t \in @ : s.tasks[t].before # ch}]
              ELSE s2
    IN  IF s2.ok /\ m \in Humans /\ s.voice[m] # 0 /\ NonBotMembers(s1, s.voice[m]) = <<>>
        THEN [s3 EXCEPT !.obs.emptied = @ \cup {FreeSlot(s1)}]
        ELSE s3

\* ------------------------------------------------------ restore_from_database
RECURSIVE SortedSeq(_)
SortedSeq(S) ==
    IF S = {} THEN <<>>
    ELSE LET x == CHOOSE y \in S : \A z \in S : y <= z
         IN  <<x>> \o SortedSeq(S \ {x})

\* The guilds bot.get_guild resolves once the host is ready.
ConnectedGuilds == {1}

\* Lines 112-150: one row of vc_systems after the other.
RECURSIVE restore_systems(_, _)
restore_systems(s, hubs) ==
    IF hubs = <<>> THEN s
    ELSE LET h   == Head(hubs)
             row == s.db_vc_systems[h]
             storage_key == IF row.category_id # 0 THEN row.category_id ELSE h
         IN  IF row.guild_id \notin ConnectedGuilds
             THEN restore_systems(s, Tail(hubs))
             ELSE IF ~ChannelExists(s, h)
             THEN restore_systems([s EXCEPT !.db_vc_systems[h] = NoRow], Tail(hubs))
             ELSE restore_systems([s EXCEPT !.vc_systems[storage_key] = row.data],
                                  Tail(hubs))

\* A variant that indexes the rows that resolve and leaves the others stored.
restore_active_lenient(s, ids) ==
    [s EXCEPT !.active_vcs = {v \in Range(ids) : ChannelExists(s, v)}]

\* Lines 152-167: one row of active_vcs after the other.
RECURSIVE restore_active(_, _)
restore_active(s, ids) ==
    IF ids = <<>> THEN s
    ELSE LET vc_id == Head(ids)
         IN  IF ChannelExists(s, vc_id)
             THEN restore_active(
                     restore_delayed_delete_task(
                         [s EXCEPT !.active_vcs = @ \cup {vc_id},
                                   !.vc_data[vc_id] = FromRow(s.db_rows[vc_id])], vc_id),
                     Tail(ids))
             ELSE restore_active([s EXCEPT !.db_active_vcs = @ \ {vc_id}], Tail(ids))

\* restore_from_database (lines 107-170), after wait_until_ready.
restore_from_database(s) ==
    LET s1 == restore_systems(s, SortedSeq({h \in Hubs : s.db_vc_systems[h].data.hub_vc_id # 0}))
        s2 == restore_active(s1, SortedSeq(s1.db_active_vcs))
    IN  [s2 EXCEPT !.restored = TRUE]


\* ------------------------------------------------------ _delayed_delete_worker
\* Lines 357-364, after the sleep.
timer_body(s, t) ==
    LET vc == s.tasks[t].vc
    IN  IF ~(ChannelExists(s, vc) /\ vc \in s.voice_ids) THEN timer_finally(s, t)
        ELSE IF NonBotMembers(s, vc) # <<>>
             THEN timer_finally(Observe(s, <<"timer_humans", vc>>), t)
             ELSE delete_user_vc(Observe(s, <<"timer_deletes", vc>>), t, vc, "timer")

\* Lines 347-356
delayed_delete_worker(s, t) ==
    LET vc == s.tasks[t].vc
    IN  IF vc \notin s.active_vcs THEN timer_finally(s, t)
        ELSE IF s.vc_data[vc].delete_ready_at = 0 THEN timer_finally(s, t)
        ELSE IF s.vc_data[vc].delete_ready_at - s.now > 0
             THEN [s EXCEPT !.tasks[t].pc = "tm_sleep",
                            !.tasks[t].wake = s.vc_data[vc].delete_ready_at]
             ELSE timer_body(s, t)

\* ==================================================================== actions
At(t, kind, pc) == tasks[t].kind = kind /\ tasks[t].pc = pc

\* The event loop starts the listener task of a dispatched event.
VsuStart(t) ==
    /\ At(t, "vsu", "start")
    /\ Commit(on_voice_state_update(St, t))

\* channel.send of log_vc_join (line 1032) answers.
JoinLogDone(t) ==
    /\ At(t, "vsu", "j_log")
    /\ Commit(IF ChannelExists(St, tasks[t].after) THEN join_text(St, t)
              ELSE Escape(St, t, "NotFound"))

\* set_permissions of line 981 answers.
JoinTextDone(t) ==
    /\ At(t, "vsu", "j_text")
    /\ Commit(IF ChannelExists(St, tasks[t].target) THEN join_hide(St, t)
              ELSE Escape(St, t, "NotFound"))

\* vc.edit of line 940 answers: @everyone gets view_channel=False; an error
\* (the channel is gone) is logged at line 942.
JoinHideDone(t) ==
    /\ At(t, "vsu", "j_hide")
    /\ LET a == tasks[t].after
       IN  Commit(leave_phase(IF ChannelExists(St, a)
                              THEN [St EXCEPT !.everyone_ow[a] =
                                               PermissionOverwrite("False", "None")]
                              ELSE St, t))

\* vc.edit of line 962 answers: @everyone gets view_channel=True.
LeaveShowDone(t) ==
    /\ At(t, "vsu", "l_show")
    /\ LET b == tasks[t].before
       IN  Commit(leave_check(IF ChannelExists(St, b)
                              THEN [St EXCEPT !.everyone_ow[b] =
                                               PermissionOverwrite("True", "None")]
                              ELSE St, t))

\* channel.send of log_vc_leave (line 1050) answers.
LeaveLogDone(t) ==
    /\ At(t, "vsu", "l_log")
    /\ Commit(IF ChannelExists(St, tasks[t].before) THEN leave_text(St, t)
              ELSE Escape(St, t, "NotFound"))

\* set_permissions of line 983 answers.
LeaveTextDone(t) ==
    /\ At(t, "vsu", "l_text")
    /\ Commit(IF ChannelExists(St, tasks[t].target) THEN leave_owner(St, t)
              ELSE Escape(St, t, "NotFound"))

\* move_to(None) of line 875 answers: the banned member is disconnected (and
\* the gateway reports it), or the member had left already (HTTPException, 876).
TransferKickDone(t) ==
    /\ At(t, "vsu", "t_kick")
    /\ LET x  == Head(tasks[t].todo)
           s1 == IF voice[x] # 0 THEN VoiceEvent(St, x, 0) ELSE St
       IN  Commit(IF s1.ok THEN transfer_kick([s1 EXCEPT !.tasks[t].todo = Tail(@)], t)
                  ELSE s1)

\* vc.edit of line 887 answers; NotFound is caught at line 888.
TransferEditDone(t) ==
    /\ At(t, "vsu", "t_edit")
    /\ LET b == tasks[t].before
           s1 == [St EXCEPT !.obs.heir[t] = 0, !.obs.watch[t] = {}]
       IN  Commit(transfer_control(
                     IF ChannelExists(St, b)
                     THEN [s1 EXCEPT !.deny_connect[b] = tasks[t].ow] ELSE s1, t))

\* old_control_channel.delete() of line 903 answers.
TransferDeleteControlDone(t) ==
    /\ At(t, "vsu", "t_delctrl")
    /\ Commit(transfer_new_control(delete_answer(St, tasks[t].target), t))

\* create_control_channel_for_vc of line 913 answers; lines 917-920.
TransferNewControlDone(t) ==
    /\ At(t, "vsu", "t_newctrl")
    /\ next_id \in ChannelIds
    /\ LET b  == tasks[t].before
           s1 == [St EXCEPT !.channels = @ \cup {next_id}, !.next_id = @ + 1]
           s2 == [s1 EXCEPT !.vc_data[b].control_channel_id = next_id]
       IN  Commit(IF b \notin active_vcs THEN Escape(s1, t, "KeyError")
                  ELSE send_control_panel(s2, t, b, next_id, "t_panel", leave_show(s2, t)))

\* The sends of send_control_panel answer; lines 769 and 794 read the record.
TransferPanelDone(t) ==
    /\ At(t, "vsu", "t_panel")
    /\ Commit(IF tasks[t].before \notin active_vcs THEN Escape(St, t, "KeyError")
              ELSE leave_show(St, t))

\* asyncio.sleep(0.1) of line 206 is over; lines 208-213.
MoveSleepDone(t) ==
    /\ At(t, "vsu", "m_sleep")
    /\ LET b == tasks[t].before
       IN  Commit(IF b \in active_vcs /\ NonBotMembers(St, b) = <<>>
                     /\ can_delete_channel_now(St, b)
                  THEN delete_user_vc(Observe(St, <<"move_deletes", b>>), t, b, "move")
                  ELSE Finish(St, t))

\* text_channel.delete() of line 1065 answers.
DeleteTextDone(t) ==
    /\ tasks[t].pc = "d_text"
    /\ Commit(delete_control(delete_answer(St, tasks[t].target), t))

\* control_channel.delete() of line 1074 answers.
DeleteControlDone(t) ==
    /\ tasks[t].pc = "d_ctrl"
    /\ Commit(delete_voice(delete_answer(St, tasks[t].target), t))

\* channel.delete() of line 1080 answers; lines 1084-1094 follow at once.
DeleteVoiceDone(t) ==
    /\ tasks[t].pc = "d_vc"
    /\ Commit(delete_finish(delete_answer(St, tasks[t].vc), t))


\* create_voice_channel (lines 493-532) answers; lines 534-554.
ProvCreateDone(t) ==
    /\ At(t, "vsu", "p_create")
    /\ next_id \in ChannelIds
    /\ LET sd == vc_systems[tasks[t].sys]
           banned_users == IF NO_CONTROL \notin sd.options
                           THEN db_banned[tasks[t].member] ELSE {}
           s1 == [St EXCEPT !.channels = @ \cup {next_id},
                            !.voice_ids = @ \cup {next_id},
                            !.user_limit[next_id] =
                                 IF sd.vc_type = WITH_LIMIT THEN sd.user_limit ELSE 0,
                            !.deny_connect[next_id] = {},
                            !.everyone_ow[next_id] =
                                 overwrites(sd.hidden_roles, sd.vc_roles, Roles)[DEFAULT_ROLE],
                            !.next_id = @ + 1,
                            !.tasks[t].vc = next_id,
                            !.tasks[t].banned = banned_users,
                            !.obs.names[next_id] =
                                 IF tasks[t].base = None THEN <<>>
                                 ELSE <<tasks[t].base, tasks[t].cat, tasks[t].num>>]
       IN  Commit(IF banned_users # {} THEN [s1 EXCEPT !.tasks[t].pc = "p_edit"]
                  ELSE prov_record(s1, t))

\* new_vc.edit of line 554 answers.
ProvEditDone(t) ==
    /\ At(t, "vsu", "p_edit")
    /\ LET vc == tasks[t].vc
       IN  Commit(IF ChannelExists(St, vc)
                  THEN prov_record([St EXCEPT !.deny_connect[vc] = tasks[t].banned], t)
                  ELSE prov_fail(St, t, "NotFound"))

\* create_text_channel_for_vc of line 593 answers; line 596.
ProvTextDone(t) ==
    /\ At(t, "vsu", "p_text")
    /\ next_id \in ChannelIds
    /\ LET vc == tasks[t].vc
           s1 == [St EXCEPT !.channels = @ \cup {next_id}, !.next_id = @ + 1]
       IN  Commit(IF vc \notin active_vcs THEN prov_fail(s1, t, "KeyError")
                  ELSE [s1 EXCEPT !.vc_data[vc].text_channel_id = next_id,
                                  !.tasks[t].pc = "p_move"])

\* member.move_to of line 600 answers; lines 601-606.
ProvMoveDone(t) ==
    /\ At(t, "vsu", "p_move")
    /\ LET vc == tasks[t].vc
           m  == tasks[t].member
           s1 == VoiceEvent(St, m, vc)
       IN  Commit(IF ~ChannelExists(St, vc)
                  THEN prov_exit([St EXCEPT !.active_vcs = @ \ {vc}], t)
                  ELSE IF voice[m] = 0 \/ voice[m] = vc THEN prov_control(St, t)
                  ELSE IF s1.ok THEN prov_control(s1, t) ELSE s1)

\* create_control_channel_for_vc of line 618 answers; lines 621-624.
ProvControlDone(t) ==
    /\ At(t, "vsu", "p_ctrl")
    /\ next_id \in ChannelIds
    /\ LET vc == tasks[t].vc
           s1 == [St EXCEPT !.channels = @ \cup {next_id}, !.next_id = @ + 1]
           s2 == [s1 EXCEPT !.vc_data[vc].control_channel_id = next_id]
       IN  Commit(IF vc \notin active_vcs THEN prov_fail(s1, t, "KeyError")
                  ELSE send_control_panel(s2, t, vc, next_id, "p_panel",
                                          prov_name_msg(s2, t)))

\* The sends of send_control_panel answer; lines 769 and 794 read the record.
ProvPanelDone(t) ==
    /\ At(t, "vsu", "p_panel")
    /\ Commit(IF tasks[t].vc \notin active_vcs THEN prov_fail(St, t, "KeyError")
              ELSE prov_name_msg(St, t))

\* _safe_channel_send of line 641 answers (None when the channel is gone); 644-645.
ProvNameMsgDone(t) ==
    /\ At(t, "vsu", "p_namemsg")
    /\ LET vc == tasks[t].vc
       IN  Commit(IF ChannelExists(St, vc) /\ vc \notin active_vcs
                  THEN prov_fail(St, t, "KeyError")
                  ELSE prov_save(St, t))

\* The platform refuses the call a provisioning waits for (create_voice_channel,
\* new_vc.edit, the text or the control channel): the exception leaves
\* _create_and_move_user_impl and is caught at line 284.
ProvCallFails(t) ==
    /\ tasks[t].kind = "vsu" /\ tasks[t].pc \in {"p_create", "p_edit", "p_text", "p_ctrl"}
    /\ budget[0] > 0
    /\ Commit(prov_fail([St EXCEPT !.budget[0] = @ - 1], t, "HTTPException"))

\* The rename hint is sent and save_active_vc raises (lines 647-652): the
\* error is logged at line 652 and no row is written.
ProvStoreFails(t) ==
    /\ At(t, "vsu", "p_namemsg")
    /\ budget[0] > 0
    /\ tasks[t].vc \in active_vcs
    /\ Commit(prov_exit([St EXCEPT !.budget[0] = @ - 1,
                                   !.obs.caught = @ \cup {"sqlite3.Error"}], t))

\* asyncio.Lock.acquire resumes in the waiter that release() woke up.
LockAcquired(t) ==
    /\ At(t, "vsu", "lock_woken")
    /\ LET lk == tasks[t].lk
       IN  Commit(prov_begin([St EXCEPT !.lock_objs[lk].waiters = Without(@, t),
                                        !.lock_objs[lk].locked = TRUE], t))

\* _cleanup_lock (lines 293-300) wakes up from its sleep.
CleanupFire(m) ==
    /\ cleanups[m] # <<>>
    /\ Head(cleanups[m]) <= now
    /\ LET lk == vc_creation_locks[m]
           s1 == [St EXCEPT !.cleanups[m] = Tail(@)]
       IN  Commit(IF lk # 0 /\ ~lock_objs[lk].locked
                  THEN [s1 EXCEPT !.vc_creation_locks[m] = 0] ELSE s1)

\* The event loop starts a _delayed_delete_worker task.
TimerStart(t) ==
    /\ At(t, "timer", "tm_start")
    /\ Commit(delayed_delete_worker(St, t))

\* asyncio.sleep(delay) of line 356 is over.
TimerWake(t) ==
    /\ At(t, "timer", "tm_sleep")
    /\ now >= tasks[t].wake
    /\ Commit(timer_body(St, t))

\* CancelledError arrives in a cancelled worker (lines 365-371).
TimerCancelled(t) ==
    /\ At(t, "timer", "tm_cancelled")
    /\ Commit(timer_finally(St, t))

\* The host signals readiness and restore_from_database runs.
Restore ==
    /\ ~restored
    /\ Commit(restore_from_database(St))


\* ---------------------------------------------------------------- environment
\* The roles that got view and connect on channel ch when it was provisioned
\* (lines 455-482); the handlers keep these role overwrites.  Every human of the
\* model holds the filter roles of the hubs.
FilterRoles(ch) ==
    LET sys == vc_data[ch].system_data
    IN  IF sys = 0 THEN {}
        ELSE vc_systems[sys].hidden_roles \cup vc_systems[sys].vc_roles

\* The platform lets a member connect: hubs that are configured take humans, a
\* created voice channel takes whoever is not denied while it is not full.
CanJoin(m, ch) ==
    /\ ch \in channels
    /\ \/ ch \in Hubs /\ m \in Humans /\ db_vc_systems[ch].data.hub_vc_id = ch
       \/ /\ ch \in voice_ids
          /\ m \notin deny_connect[ch]
          /\ everyone_ow[ch].connect # "False" \/ FilterRoles(ch) # {}
          /\ user_limit[ch] = 0 \/ Len(ChannelMembers(St, ch)) < user_limit[ch]

\* A member acting on its own is no longer watched by a running transfer.
Spend(s, m) ==
    [s EXCEPT !.budget[m] = @ - 1,
              !.obs.watch = [t \in TaskIds |-> s.obs.watch[t] \ {m}]]

\* At most n coroutines are alive.
Running(n) == Cardinality({t \in TaskIds : tasks[t].kind # "idle"}) <= n

\* A member connects to a voice channel.
EnvJoin(m, ch) ==
    /\ restored /\ budget[m] > 0
    /\ voice[m] = 0 /\ CanJoin(m, ch)
    /\ Commit(VoiceEvent(Spend(St, m), m, ch))

\* A member disconnects.
EnvLeave(m) ==
    /\ restored /\ budget[m] > 0
    /\ voice[m] # 0
    /\ Commit(VoiceEvent(Spend(St, m), m, 0))

\* A member switches to another voice channel.
EnvMove(m, ch) ==
    /\ restored /\ budget[m] > 0
    /\ voice[m] # 0 /\ voice[m] # ch /\ CanJoin(m, ch)
    /\ Commit(VoiceEvent(Spend(St, m), m, ch))

\* Steps the event loop takes at once: a task it has just created, woken or
\* cancelled, and the 0.1 s sleep of line 206.
ImmediatePcs == {"start", "tm_start", "tm_cancelled", "lock_woken", "m_sleep"}

\* A minute passes while every coroutine waits for the platform or sleeps; a
\* sleep that is over wakes up before another minute passes.
Tick ==
    /\ restored /\ now < MaxTime
    /\ \A t \in TaskIds : tasks[t].pc \notin ImmediatePcs
    /\ \A t \in TaskIds : tasks[t].pc = "tm_sleep" => tasks[t].wake > now
    /\ \A m \in Members : cleanups[m] # <<>> => Head(cleanups[m]) > now
    /\ now' = now + 1
    /\ UNCHANGED <<channels, voice_ids, user_limit, deny_connect, everyone_ow, voice, vorder, next_id,
                   vc_systems, db_vc_systems, active_vcs, vc_data, db_active_vcs, db_rows,
                   db_banned, vc_creation_locks, lock_objs, next_lock, cleanups,
                   delayed_delete_tasks, tasks, restored, budget, calc, obs>>

\* delete_user_vc is called for a voice channel the bot created (budget[0] calls).
CallDelete(vc) ==
    /\ restored /\ budget[0] > 0
    /\ vc \in voice_ids
    /\ Commit(Spawn([St EXCEPT !.budget[0] = @ - 1],
                    [IdleTask EXCEPT !.kind = "call", !.pc = "start", !.vc = vc]))

\* The event loop starts that call.
CallStart(t) ==
    /\ At(t, "call", "start")
    /\ Commit(delete_user_vc(St, t, tasks[t].vc, "call"))

\* Somebody with the permission deletes an empty hub or created voice channel on
\* the platform.  The cog registers one listener, on_voice_state_update (line
\* 188); nobody is inside, so no event reaches it.
EnvDeleteChannel(ch) ==
    /\ restored /\ budget[0] > 0
    /\ ch \in channels /\ ch \in Hubs \cup voice_ids
    /\ ChannelMembers(St, ch) = <<>>
    /\ Commit(PlatformDelete([St EXCEPT !.budget[0] = @ - 1], ch))

\* ----------------------------------------------------------------- initial state
\* The process has just been constructed (lines 88-105): nothing in memory, the
\* store as the previous run left it, nobody in voice.
InitCalc(sysrows, bans, bud, input) ==
    /\ channels = Fixed /\ voice_ids = {}
    /\ user_limit = [c \in ChannelIds |-> 0]
    /\ deny_connect = [c \in ChannelIds |-> {}]
    /\ everyone_ow = [c \in ChannelIds |-> NoOverwrite]
    /\ voice = [m \in Members |-> 0] /\ vorder = <<>>
    /\ next_id = FirstId /\ now = 1
    /\ vc_systems = [k \in Fixed |-> NoSystem]
    /\ db_vc_systems = sysrows
    /\ active_vcs = {} /\ vc_data = [c \in ChannelIds |-> EmptyData]
    /\ db_active_vcs = {} /\ db_rows = [c \in ChannelIds |-> EmptyRow]
    /\ db_banned = bans
    /\ vc_creation_locks = [m \in Members |-> 0]
    /\ lock_objs = [l \in LockIds |-> NoLock] /\ next_lock = 1
    /\ cleanups = [m \in Members |-> <<>>]
    /\ delayed_delete_tasks = [c \in ChannelIds |-> 0]
    /\ tasks = [t \in TaskIds |-> IdleTask]
    /\ restored = FALSE
    /\ budget = bud /\ calc = input
    /\ obs = NoObs

InitWith(sysrows, bans, bud) == InitCalc(sysrows, bans, bud, NoCalc)

NoBans == [m \in Members |-> {}]
Budget(b1, b2, b3, b4, calls) ==
    [m \in Members \cup {0} |->
        CASE m = 1 -> b1 [] m = 2 -> b2 [] m = 3 -> b3 [] m = 4 -> b4 [] OTHER -> calls]
OneHub(sd) == [h \in Hubs |-> IF h = sd.hub_vc_id THEN SystemRow(0, sd) ELSE NoRow]


\* ======================================================= bots and the user limit
\* One hub of the fixed-capacity type (2 seats); one human and the bot act.
BotHub == SystemData(1, WITH_LIMIT, 2, UNDER_HUB, 0,
                     {NO_CONTROL, NO_JOIN_LEAVE_LOG, LOCK_NAME}, "room", 0)

InitBot == InitWith(OneHub(BotHub), NoBans, Budget(2, 0, 0, 2, 0))

NextBot ==
    \/ Restore
    \/ \E m \in Members, ch \in ChannelIds : EnvJoin(m, ch)
    \/ \E m \in Members : EnvLeave(m)
    \/ \E m \in Members, ch \in ChannelIds : EnvMove(m, ch)
    \/ \E t \in TaskIds : VsuStart(t)
    \/ \E t \in TaskIds : ProvCreateDone(t)
    \/ \E t \in TaskIds : ProvMoveDone(t)
    \/ \E t \in TaskIds : DeleteVoiceDone(t)
    \/ \E m \in Members : CleanupFire(m)
    \/ Tick

SpecBot == InitBot /\ [][NextBot]_vars

\* A bot join or leave event on channel vc has just been handled.
BotEventHandled(vc) ==
    /\ Len(obs.last) = 2
    /\ obs.last[1] \in {"bot_join", "bot_leave"}
    /\ obs.last[2] = vc

\* C1: for a fixed-capacity channel, after each bot join or leave event the
\* platform user limit equals min(99, original_user_limit + bot_count), and
\* bot_count is never negative.
C1_LimitFollowsBots ==
    \A vc \in active_vcs :
        (vc_data[vc].vc_type = WITH_LIMIT /\ BotEventHandled(vc)) =>
            /\ user_limit[vc] =
                 Min(PLATFORM_MAX_LIMIT, vc_data[vc].original_limit + vc_data[vc].bot_count)
            /\ vc_data[vc].bot_count >= 0


\* ================================================= deferred deletion (the guard)
\* One hub whose channels are kept for at least one minute after creation.
GuardHub == SystemData(1, NO_LIMIT, 0, UNDER_HUB, 0,
                       {NO_CONTROL, NO_JOIN_LEAVE_LOG, LOCK_NAME}, "room", 1)

InitGuard == InitWith(OneHub(GuardHub), NoBans, Budget(2, 0, 0, 2, 0))

NextGuard ==
    \/ Restore
    \/ \E m \in Members, ch \in ChannelIds : EnvJoin(m, ch)
    \/ \E m \in Members : EnvLeave(m)
    \/ \E m \in Members, ch \in ChannelIds : EnvMove(m, ch)
    \/ \E t \in TaskIds : VsuStart(t)
    \/ \E t \in TaskIds : ProvCreateDone(t)
    \/ \E t \in TaskIds : ProvMoveDone(t)
    \/ \E t \in TaskIds : DeleteVoiceDone(t)
    \/ \E t \in TaskIds : MoveSleepDone(t)
    \/ \E t \in TaskIds : TimerStart(t)
    \/ \E t \in TaskIds : TimerWake(t)
    \/ \E t \in TaskIds : TimerCancelled(t)
    \/ \E m \in Members : CleanupFire(m)
    \/ Tick

SpecGuard == InitGuard /\ [][NextGuard]_vars

\* The guard of channel vc is in force: a delay is configured and T lies ahead.
GuardInForce(vc) ==
    /\ vc \in active_vcs
    /\ vc_data[vc].delete_delay_minutes # 0
    /\ vc_data[vc].delete_ready_at # 0
    /\ now < vc_data[vc].delete_ready_at

\* C2: while delete_ready_at = T lies ahead, no step (leave event, move event,
\* timer) deletes the channel, its in-memory record or its stored row.
C2_GuardKeepsChannel ==
    [][\A vc \in ChannelIds :
          GuardInForce(vc) =>
              /\ vc \in channels'
              /\ vc \in active_vcs'
              /\ (vc \in db_active_vcs => vc \in db_active_vcs')]_vars

\* A leave or move event found the channel without humans before T and kept it.
C2_Witness ==
    /\ Len(obs.last) = 2
    /\ obs.last[1] = "leave_guarded"
    /\ GuardInForce(obs.last[2])
    /\ obs.last[2] \in channels
    /\ NonBotMembers(St, obs.last[2]) = <<>>

\* The handling of a leave event for vc, or the timer of vc, ends in this step.
EndsFor(t, vc) ==
    /\ tasks'[t].kind = "idle"
    /\ \/ tasks[t].kind = "vsu" /\ tasks[t].before = vc /\ tasks[t].after # vc
       \/ tasks[t].kind = "timer" /\ tasks[t].vc = vc /\ tasks[t].pc # "tm_start"

\* T has been reached for the guarded channel vc.
GuardElapsed(vc) ==
    /\ vc \in active_vcs
    /\ vc_data[vc].delete_delay_minutes # 0
    /\ now >= vc_data[vc].delete_ready_at

\* C3: a leave event or timer fire at or after T that leaves the channel with
\* zero non-bot members has deleted it by the time its handling ends.
C3_ElapsedAndEmptyIsDeleted ==
    [][\A t \in TaskIds, vc \in ChannelIds :
          (EndsFor(t, vc) /\ GuardElapsed(vc) /\ NonBotMembers(St', vc) = <<>>) =>
              (vc \notin active_vcs' /\ vc \notin channels')]_vars

\* C4: interleaved delete invocations for one channel issue at most one
\* platform deletion per channel, and no exception leaves an invocation.
C4_OneDeletionAttempt ==
    /\ \A c \in ChannelIds : obs.attempts[c] <= 1
    /\ obs.del_escaped = {}


\* ======================================================== deleting a second time
\* A plain hub whose channels may be renamed (the rename hint is sent);
\* delete_user_vc is also called directly, twice at most.
PlainHub == SystemData(1, NO_LIMIT, 0, UNDER_HUB, 0,
                       {NO_CONTROL, NO_JOIN_LEAVE_LOG}, None, 0)

InitAgain == InitWith(OneHub(PlainHub), NoBans, Budget(2, 0, 0, 0, 2))

NextAgain ==
    \/ Restore
    \/ \E m \in Members, ch \in ChannelIds : EnvJoin(m, ch)
    \/ \E m \in Members : EnvLeave(m)
    \/ \E m \in Members, ch \in ChannelIds : EnvMove(m, ch)
    \/ \E t \in TaskIds : VsuStart(t)
    \/ \E t \in TaskIds : ProvCreateDone(t)
    \/ \E t \in TaskIds : ProvMoveDone(t)
    \/ \E t \in TaskIds : ProvNameMsgDone(t)
    \/ \E t \in TaskIds : DeleteVoiceDone(t)
    \/ \E vc \in ChannelIds : CallDelete(vc)
    \/ \E t \in TaskIds : CallStart(t)

SpecAgain == InitAgain /\ [][NextAgain]_vars

\* Task t is a call of delete_user_vc that starts in this step, for a channel
\* whose deletion has completed before.
SecondCall(t) ==
    /\ At(t, "call", "start")
    /\ tasks'[t] # tasks[t]
    /\ tasks[t].vc \notin active_vcs
    /\ obs.row_deletes[tasks[t].vc] > 0

\* C5: deleting a channel again after its deletion completed is a no-op: the
\* call returns at once, issues no platform call, changes neither the index,
\* the store nor the timer table, and raises nothing.
C5_SecondDeleteIsNoOp ==
    [][\A t \in TaskIds :
          SecondCall(t) =>
              /\ tasks'[t].kind = "idle"
              /\ UNCHANGED <<channels, active_vcs, vc_data, db_active_vcs, db_rows,
                             delayed_delete_tasks>>
              /\ obs'.attempts = obs.attempts
              /\ obs'.row_deletes = obs.row_deletes
              /\ obs'.del_escaped = obs.del_escaped]_vars

\* A call for a channel deleted before has returned at once.
C5_Witness ==
    /\ Len(obs.last) = 2
    /\ obs.last[1] = "returned_at_once"
    /\ obs.row_deletes[obs.last[2]] > 0
    /\ obs.last[2] \notin active_vcs
    /\ obs.last[2] \notin channels


\* ============================================================== locked names
\* Hub 1 names its channels "room-<n>" in category 3.  Hub 2 either uses the
\* same base name in category 4, or the member's default name in category 3.
RoomHub  == SystemData(1, NO_LIMIT, 0, UNDER_HUB, 0,
                       {NO_CONTROL, NO_JOIN_LEAVE_LOG, LOCK_NAME}, "room", 0)
RoomHub4 == SystemData(2, NO_LIMIT, 0, SAME_CATEGORY, 4,
                       {NO_CONTROL, NO_JOIN_LEAVE_LOG, LOCK_NAME}, "room", 0)
OwnHub3  == SystemData(2, NO_LIMIT, 0, SAME_CATEGORY, 3,
                       {NO_CONTROL, NO_JOIN_LEAVE_LOG, LOCK_NAME}, "", 0)

InitNames ==
    \E sd2 \in {RoomHub4, OwnHub3} :
        InitWith([h \in Hubs |-> IF h = 1 THEN SystemRow(0, RoomHub) ELSE SystemRow(0, sd2)],
                 NoBans, Budget(1, 3, 1, 0, 0))

\* Members enter a hub or disconnect, one event after the other has been handled.
JoinHub(m, h) == Running(0) /\ EnvJoin(m, h)
Disconnect(m) == Running(0) /\ EnvLeave(m)

NextNames ==
    \/ Restore
    \/ \E m \in Members, h \in Hubs : JoinHub(m, h)
    \/ \E m \in Members : Disconnect(m)
    \/ \E t \in TaskIds : VsuStart(t)
    \/ \E t \in TaskIds : ProvCreateDone(t)
    \/ \E t \in TaskIds : ProvMoveDone(t)
    \/ \E t \in TaskIds : DeleteVoiceDone(t)

SpecNames == InitNames /\ [][NextNames]_vars

\* The numbers in use among the active channels of one base name and category.
UsedNumbers(base, cat) ==
    {vc_data[v].name_number :
        v \in {x \in active_vcs : vc_data[x].base_name = base /\ vc_data[x].category_id = cat}}

SmallestUnused(S) ==
    CHOOSE n \in 1..(Cardinality(S) + 1) : n \notin S /\ \A k \in 1..(n - 1) : k \in S

\* A locked-name channel gets its number in this step.
NameGiven ==
    /\ obs'.last # obs.last
    /\ Len(obs'.last) = 5
    /\ obs'.last[1] = "named"

\* C6: under a locked-name hub the new channel is "<base>-<n>" with n the
\* smallest positive integer no active channel of the same base name and the
\* same target category uses; other categories and other base names do not count.
C6_SmallestUnusedSuffix ==
    [][NameGiven =>
          obs'.last[5] = SmallestUnused(UsedNumbers(obs'.last[3], obs'.last[4]))]_vars

\* With room-1 and room-3 active in category 3 (room-2 was deleted), the next
\* channel of that hub is room-2 again.
C6_Witness ==
    /\ Len(obs.last) = 5
    /\ obs.last[1] = "named"
    /\ obs.last[3] = "room" /\ obs.last[4] = 3
    /\ obs.last[5] = 2
    /\ UsedNumbers("room", 3) = {1, 3}


\* ======================================================= startup reconciliation
\* The previous run left rows for channels 5 and 6 (any subset), of which any
\* subset still exists; a row may carry a deletion guard that has elapsed or not.
\* Member 1 may sit in one of the surviving channels.
PriorIds == {FirstId, FirstId + 1}

PriorRow(delay, ready) ==
    ToRow([EmptyData EXCEPT !.vc_type = NO_LIMIT, !.category_id = 3, !.owner_id = 1,
                            !.options = {NO_CONTROL, NO_JOIN_LEAVE_LOG, LOCK_NAME},
                            !.delete_delay_minutes = delay, !.delete_ready_at = ready])

PriorRows == {PriorRow(0, 0), PriorRow(1, 1), PriorRow(1, 2)}

InitRestore ==
    \E existing \in SUBSET PriorIds, stored \in SUBSET PriorIds, row \in PriorRows,
       seat \in PriorIds \cup {0} :
        /\ seat # 0 => seat \in existing
        /\ channels = Fixed \cup existing /\ voice_ids = existing
        /\ user_limit = [c \in ChannelIds |-> 0]
        /\ deny_connect = [c \in ChannelIds |-> {}]
        /\ everyone_ow = [c \in ChannelIds |-> NoOverwrite]
        /\ voice = [m \in Members |-> IF m = 1 THEN seat ELSE 0]
        /\ vorder = IF seat # 0 THEN <<1>> ELSE <<>>
        /\ next_id = FirstId + 2 /\ now = 1
        /\ vc_systems = [k \in Fixed |-> NoSystem]
        /\ db_vc_systems = OneHub(RoomHub)
        /\ active_vcs = {} /\ vc_data = [c \in ChannelIds |-> EmptyData]
        /\ db_active_vcs = stored
        /\ db_rows = [c \in ChannelIds |-> IF c \in stored THEN row ELSE EmptyRow]
        /\ db_banned = NoBans
        /\ vc_creation_locks = [m \in Members |-> 0]
        /\ lock_objs = [l \in LockIds |-> NoLock] /\ next_lock = 1
        /\ cleanups = [m \in Members |-> <<>>]
        /\ delayed_delete_tasks = [c \in ChannelIds |-> 0]
        /\ tasks = [t \in TaskIds |-> IdleTask]
        /\ restored = FALSE
        /\ budget = Budget(2, 0, 0, 0, 0) /\ calc = NoCalc
        /\ obs = NoObs

NextRestore ==
    \/ Restore
    \/ \E m \in Members, ch \in ChannelIds : EnvJoin(m, ch)
    \/ \E m \in Members : EnvLeave(m)
    \/ \E m \in Members, ch \in ChannelIds : EnvMove(m, ch)
    \/ \E t \in TaskIds : VsuStart(t)
    \/ \E t \in TaskIds : ProvCreateDone(t)
    \/ \E t \in TaskIds : ProvMoveDone(t)
    \/ \E t \in TaskIds : DeleteVoiceDone(t)
    \/ \E t \in TaskIds : MoveSleepDone(t)
    \/ \E t \in TaskIds : TimerStart(t)
    \/ \E t \in TaskIds : TimerWake(t)
    \/ \E t \in TaskIds : TimerCancelled(t)
    \/ \E m \in Members : CleanupFire(m)
    \/ Tick

SpecRestore == InitRestore /\ [][NextRestore]_vars

\* C7: after the startup reconciliation, a stored active-channel record whose
\* channel id no longer resolves is absent from the store and from memory, and
\* one whose id resolves is present in both.
C7_RestoreReconciles ==
    [][(~restored /\ restored') =>
          \A id \in db_active_vcs :
              /\ id \notin channels => (id \notin db_active_vcs' /\ id \notin active_vcs')
              /\ id \in channels => (id \in db_active_vcs' /\ id \in active_vcs')]_vars

\* The reconciliation has run on a store with one row that resolves and one
\* that does not, and no deletion has been attempted since.
C7_Witness ==
    /\ restored
    /\ \A c \in ChannelIds : obs.attempts[c] = 0
    /\ \E a, b \in PriorIds :
          /\ db_rows[a] # EmptyRow /\ a \notin channels
          /\ a \notin db_active_vcs /\ a \notin active_vcs
          /\ db_rows[b] # EmptyRow /\ b \in channels
          /\ b \in db_active_vcs /\ b \in active_vcs


\* =========================================================== ownership transfer
\* A hub with control panels; members 2 and 3 have each other on their
\* persisted ban lists.
PanelHub == SystemData(1, NO_LIMIT, 0, UNDER_HUB, 0,
                       {NO_JOIN_LEAVE_LOG, LOCK_NAME}, "room", 0)

MutualBans == [m \in Members |-> CASE m = 2 -> {3} [] m = 3 -> {2} [] OTHER -> {}]

InitTransfer == InitWith(OneHub(PanelHub), MutualBans, Budget(2, 2, 1, 0, 0))

\* Members connect while no coroutine is running; they leave and switch while
\* at most one is.
NextTransfer ==
    \/ Restore
    \/ \E m \in Members, ch \in ChannelIds : Running(0) /\ EnvJoin(m, ch)
    \/ \E m \in Members : Running(1) /\ EnvLeave(m)
    \/ \E m \in Members, ch \in ChannelIds : Running(1) /\ EnvMove(m, ch)
    \/ \E t \in TaskIds : VsuStart(t)
    \/ \E t \in TaskIds : ProvCreateDone(t)
    \/ \E t \in TaskIds : ProvEditDone(t)
    \/ \E t \in TaskIds : ProvMoveDone(t)
    \/ \E t \in TaskIds : ProvControlDone(t)
    \/ \E t \in TaskIds : ProvPanelDone(t)
    \/ \E t \in TaskIds : TransferKickDone(t)
    \/ \E t \in TaskIds : TransferEditDone(t)
    \/ \E t \in TaskIds : TransferDeleteControlDone(t)
    \/ \E t \in TaskIds : TransferNewControlDone(t)
    \/ \E t \in TaskIds : TransferPanelDone(t)
    \/ \E t \in TaskIds : DeleteControlDone(t)
    \/ \E t \in TaskIds : DeleteVoiceDone(t)
    \/ \E t \in TaskIds : MoveSleepDone(t)

SpecTransfer == InitTransfer /\ [][NextTransfer]_vars

Pos(q, x) == CHOOSE i \in 1..Len(q) : q[i] = x

\* The handler t picks the new owner in this step.
HeirChosen(t) == obs.heir[t] = 0 /\ obs'.heir[t] # 0

\* The permission edit of handler t's transfer answers in this step.
TransferEdited(t) ==
    /\ At(t, "vsu", "t_edit")
    /\ tasks'[t] # tasks[t]
    /\ tasks[t].before \in channels

LeaveHub == SystemData(1, NO_LIMIT, 0, UNDER_HUB, 0,
                       {TEXT_CHANNEL, LOCK_NAME, NO_OWNERSHIP_TRANSFER}, "room", 0)

InitLeave == InitWith(OneHub(LeaveHub), NoBans, Budget(2, 2, 0, 1, 0))

\* Members connect while no coroutine is running; humans leave and switch
\* while at most one is.
NextLeave ==
    \/ Restore
    \/ \E m \in Members, ch \in ChannelIds : Running(0) /\ EnvJoin(m, ch)
    \/ \E m \in Humans : Running(1) /\ EnvLeave(m)
    \/ \E m \in Humans, ch \in ChannelIds : Running(1) /\ EnvMove(m, ch)
    \/ \E t \in TaskIds :
          \/ VsuStart(t)
          \/ ProvCreateDone(t) \/ ProvTextDone(t) \/ ProvMoveDone(t)
          \/ ProvControlDone(t) \/ ProvPanelDone(t)
          \/ JoinLogDone(t) \/ JoinTextDone(t)
          \/ LeaveLogDone(t) \/ LeaveTextDone(t)
          \/ MoveSleepDone(t)
          \/ DeleteTextDone(t) \/ DeleteControlDone(t) \/ DeleteVoiceDone(t)

SpecLeave == InitLeave /\ [][NextLeave]_vars

\* Handler t, whose event took the last human out of its channel, ends in this
\* step, and no human has come back to the channel since the event.
EmptyingHandled(t) == t \in obs.emptied /\ t \notin obs'.emptied /\ tasks'[t].kind = "idle"

\* Nothing of channel b is left: the voice channel, its text and control
\* channels, the in-memory record and the stored row.
AllRemoved(s, b) ==
    /\ b \notin s.channels /\ b \notin s.active_vcs /\ b \notin s.db_active_vcs
    /\ s.vc_data[b].text_channel_id # 0 => s.vc_data[b].text_channel_id \notin s.channels
    /\ s.vc_data[b].control_channel_id # 0
          => s.vc_data[b].control_channel_id \notin s.channels

\* C9: when the handler of the event that took the last human out of a created
\* channel ends and no deletion guard is in force, the voice channel, its text
\* and control channels, the record and the stored row are all gone, bots
\* inside or not.
C9_EmptyChannelIsRemoved ==
    [][\A t \in TaskIds :
          LET b == tasks[t].before
          IN  (/\ EmptyingHandled(t)
               /\ b \in voice_ids
               /\ ~GuardInForce(b))
              => AllRemoved(St', b)]_vars


\* ================================================== one provisioning per user
\* One hub without companions; member 1 joins it again and again while the
\* cleanup tasks of earlier joins wake up.
LockHub == SystemData(1, NO_LIMIT, 0, UNDER_HUB, 0,
                      {NO_CONTROL, NO_JOIN_LEAVE_LOG, LOCK_NAME}, "room", 0)

InitLock == InitWith(OneHub(LockHub), NoBans, Budget(5, 0, 0, 0, 0))

\* The member acts while at most one coroutine is still running.
NextLock ==
    \/ Restore
    \/ \E m \in Humans, ch \in ChannelIds : Running(1) /\ EnvJoin(m, ch)
    \/ \E m \in Humans : Running(1) /\ EnvLeave(m)
    \/ \E m \in Humans, ch \in ChannelIds : Running(1) /\ EnvMove(m, ch)
    \/ \E t \in TaskIds :
          \/ VsuStart(t) \/ LockAcquired(t)
          \/ ProvCreateDone(t) \/ ProvMoveDone(t)
          \/ DeleteVoiceDone(t)
    \/ \E m \in Members : CleanupFire(m)
    \/ Tick

SpecLock == InitLock /\ [][NextLock]_vars

\* The handlers that are inside _create_and_move_user_impl for member m.
Provisioning(m) ==
    {t \in TaskIds : tasks[t].kind = "vsu" /\ tasks[t].member = m /\ tasks[t].pc \in ProvPcs}

\* C10: at no time are two provisioning sequences of the same user in
\* progress, whatever the cleanup task does to the user's lock entry.
C10_OneProvisioningPerUser ==
    \A m \in Members : Cardinality(Provisioning(m)) <= 1


\* ================================================= one active channel per user
\* The channels member m owns: records of the index whose channel exists.
OwnedBy(m) == {v \in active_vcs : v \in channels /\ vc_data[v].owner_id = m}

\* No event listener is running.
NoHandlerRunning == \A t \in TaskIds : tasks[t].kind # "vsu"

\* C11: whenever no handler is running, a user owns at most one active channel
\* whose platform channel exists; a hub join by an owner creates no second one.
C11_OneChannelPerOwner ==
    NoHandlerRunning => \A m \in Humans : Cardinality(OwnedBy(m)) <= 1


\* =================================================== a move that cannot happen
\* member.move_to of line 600 answers handler t with a failure in this step:
\* the new channel is gone (NotFound) or the member is in no voice channel.
MoveFails(t) ==
    /\ At(t, "vsu", "p_move") /\ tasks'[t].pc # "p_move"
    /\ tasks[t].vc \notin channels \/ voice[tasks[t].member] = 0

\* C12: when the move fails, provisioning rolls back: the index and the store
\* hold no record of the new channel, its timer is gone and the platform
\* channel does not remain.  (In this hub the move is the last awaited call.)
C12_FailedMoveRollsBack ==
    [][\A t \in TaskIds :
          MoveFails(t) =>
              LET vc == tasks[t].vc
              IN  /\ vc \notin active_vcs' /\ vc \notin db_active_vcs'
                  /\ delayed_delete_tasks'[vc] = 0
                  /\ vc \notin channels']_vars


\* ================================================== the record reaches the store
\* Handler t has written the record of its new channel into the index (line
\* 557) and is at a later await of _create_and_move_user_impl.
PastRecordStep(t) ==
    /\ tasks[t].kind = "vsu"
    /\ tasks[t].pc \in {"p_text", "p_move", "p_ctrl", "p_panel", "p_namemsg"}

\* C13: wherever provisioning has passed the record step and the new voice
\* channel exists, the store holds the record (a restart would find it).
C13_StoredBeforeCompanions ==
    \A t \in TaskIds :
        (PastRecordStep(t) /\ tasks[t].vc \in channels) => tasks[t].vc \in db_active_vcs


\* ============================================ the store mirrors the index
\* The stored row of channel vc carries the same owner, limits, lock state,
\* ban list and companion channel ids as the record in memory.
RowAgrees(vc) ==
    LET r == db_rows[vc]
        d == vc_data[vc]
    IN  /\ vc \in db_active_vcs
        /\ r.owner_id = d.owner_id
        /\ r.original_limit = d.original_limit /\ r.bot_count = d.bot_count
        /\ r.is_locked = d.is_locked /\ r.banned_users = d.banned_users
        /\ r.text_channel_id = d.text_channel_id
        /\ r.control_channel_id = d.control_channel_id

\* C14: whenever no handler is running, the stored row of every active channel
\* agrees with its in-memory record, so that a restart rebuilds the same state.
C14_StoreAgreesWithIndex ==
    NoHandlerRunning => \A vc \in active_vcs : vc \in channels => RowAgrees(vc)


\* ================================================== timers after a restart
\* Channel vc has a deferred-deletion worker registered and alive.
TimerArmed(vc) ==
    /\ delayed_delete_tasks[vc] # 0
    /\ tasks[delayed_delete_tasks[vc]].kind = "timer"
    /\ tasks[delayed_delete_tasks[vc]].vc = vc

\* The worker t of a restored record with delete_ready_at begins in this step
\* (no other coroutine moves, so the worker was not cancelled by one).
RestoredTimerStarts(t) ==
    /\ At(t, "timer", "tm_start") /\ tasks'[t] # tasks[t]
    /\ \A u \in TaskIds \ {t} : tasks'[u] = tasks[u]
    /\ tasks[t].vc \in PriorIds /\ tasks[t].vc \in active_vcs
    /\ vc_data[tasks[t].vc].delete_ready_at # 0

\* C15: the startup reconciliation arms a timer for every restored record with
\* delete_ready_at; the timer sleeps until delete_ready_at when that lies
\* ahead, and when it has passed it acts at once: it deletes the channel if
\* the channel has no non-bot member and leaves it alone otherwise.
C15_RestoredTimers ==
    [][/\ (~restored /\ restored') =>
             \A vc \in active_vcs' : vc_data'[vc].delete_ready_at # 0 => TimerArmed(vc)'
       /\ \A t \in TaskIds :
             RestoredTimerStarts(t) =>
                 LET vc == tasks[t].vc
                     T  == vc_data[vc].delete_ready_at
                 IN  IF T > now
                     THEN /\ tasks'[t].pc = "tm_sleep" /\ tasks'[t].wake = T
                          /\ vc \in channels' /\ vc \in active_vcs'
                     ELSE IF vc \notin channels THEN tasks'[t].kind = "idle"
                     ELSE IF NonBotMembers(St, vc) = <<>>
                          THEN /\ tasks'[t].pc = "d_vc"
                               /\ obs'.attempts[vc] = obs.attempts[vc] + 1
                          ELSE /\ tasks'[t].kind = "idle"
                               /\ obs'.attempts[vc] = obs.attempts[vc]
                               /\ vc \in active_vcs']_vars

\* A restored record whose delete_ready_at had passed before the restart: its
\* timer found the channel without humans and the channel is gone.
C15_Witness ==
    /\ restored
    /\ \E vc \in PriorIds :
          /\ obs.last = <<"timer_deletes", vc>>
          /\ db_rows[vc].delete_ready_at = 1
          /\ vc \notin channels /\ vc \notin active_vcs /\ vc \notin db_active_vcs

\* ===================================================== hub configurations
\* The store of the previous run: each hub has no row, a row of the guild the
\* process serves, or a row of a guild that is no longer connected (none of
\* whose channels resolve); hubs of the served guild may have been deleted
\* while the process was down.
HubRow(h) == IF h = 1 THEN SystemRow(0, RoomHub) ELSE SystemRow(4, RoomHub4)

\* Hub 1 configured to place its channels in category 4, like hub 2: the row's
\* category_id column holds the target category (lines 1265-1266).
LobbyHub4 == SystemData(1, NO_LIMIT, 0, SAME_CATEGORY, 4,
                        {NO_CONTROL, NO_JOIN_LEAVE_LOG, LOCK_NAME}, "lobby", 0)

InitSystems ==
    \E r1 \in {NoRow, HubRow(1), [HubRow(1) EXCEPT !.guild_id = 2], SystemRow(4, LobbyHub4)},
       r2 \in {NoRow, HubRow(2), [HubRow(2) EXCEPT !.guild_id = 2]},
       existing \in SUBSET Hubs :
        /\ \A h \in existing : (IF h = 1 THEN r1 ELSE r2).guild_id \in ConnectedGuilds
        /\ channels = Categories \cup existing /\ voice_ids = {}
        /\ user_limit = [c \in ChannelIds |-> 0]
        /\ deny_connect = [c \in ChannelIds |-> {}]
        /\ everyone_ow = [c \in ChannelIds |-> NoOverwrite]
        /\ voice = [m \in Members |-> 0] /\ vorder = <<>>
        /\ next_id = FirstId /\ now = 1
        /\ vc_systems = [k \in Fixed |-> NoSystem]
        /\ db_vc_systems = [h \in Hubs |-> IF h = 1 THEN r1 ELSE r2]
        /\ active_vcs = {} /\ vc_data = [c \in ChannelIds |-> EmptyData]
        /\ db_active_vcs = {} /\ db_rows = [c \in ChannelIds |-> EmptyRow]
        /\ db_banned = NoBans
        /\ vc_creation_locks = [m \in Members |-> 0]
        /\ lock_objs = [l \in LockIds |-> NoLock] /\ next_lock = 1
        /\ cleanups = [m \in Members |-> <<>>]
        /\ delayed_delete_tasks = [c \in ChannelIds |-> 0]
        /\ tasks = [t \in TaskIds |-> IdleTask]
        /\ restored = FALSE
        /\ budget = Budget(2, 2, 0, 0, 1) /\ calc = NoCalc
        /\ obs = NoObs

NextSystems ==
    \/ Restore
    \/ \E m \in Members, h \in Hubs : JoinHub(m, h)
    \/ \E m \in Members : Disconnect(m)
    \/ \E ch \in ChannelIds : EnvDeleteChannel(ch)
    \/ \E t \in TaskIds : VsuStart(t)
    \/ \E t \in TaskIds : ProvCreateDone(t)
    \/ \E t \in TaskIds : ProvMoveDone(t)
    \/ \E t \in TaskIds : DeleteVoiceDone(t)

SpecSystems == InitSystems /\ [][NextSystems]_vars

\* The configuration of hub h is in the in-memory index.
Indexed(h) == \E k \in Fixed : vc_systems[k].hub_vc_id = h

\* The store holds a row for hub h.
Stored(h) == db_vc_systems[h] # NoRow

\* C16: in the step in which the startup reconciliation runs, every stored hub
\* configuration whose hub channel does not resolve (the channel was deleted, or
\* its guild is no longer connected) is deleted from the store and is not in
\* the in-memory index afterwards.
C16_OrphanConfigsRemoved ==
    [][(~restored /\ restored') =>
          \A h \in Hubs : (Stored(h) /\ h \notin channels) => ~Stored(h)' /\ ~Indexed(h)']_vars

\* C17: while the process runs and no listener is in flight, every hub of the
\* served guild that has a configuration in the store or in the in-memory index
\* exists on the platform (deleting the hub removes its configuration), and a
\* stored configuration of an existing hub is indexed exactly once.
C17_NoDanglingHubConfig ==
    (restored /\ NoHandlerRunning) =>
        \A h \in Hubs :
            /\ (Indexed(h) \/ (Stored(h) /\ db_vc_systems[h].guild_id \in ConnectedGuilds))
                   => h \in channels
            /\ Cardinality({k \in Fixed : vc_systems[k].hub_vc_id = h}) <= 1

\* ================================================ channels deleted by others
\* The guarded hub of SpecGuard, and a moderator who deletes one empty channel.
InitExternal == InitWith(OneHub(GuardHub), NoBans, Budget(3, 0, 0, 0, 1))

NextExternal ==
    \/ Restore
    \/ \E m \in Members, ch \in ChannelIds : Running(1) /\ EnvJoin(m, ch)
    \/ \E m \in Members : Running(1) /\ EnvLeave(m)
    \/ \E ch \in ChannelIds : EnvDeleteChannel(ch)
    \/ \E t \in TaskIds : VsuStart(t)
    \/ \E t \in TaskIds : ProvCreateDone(t)
    \/ \E t \in TaskIds : ProvMoveDone(t)
    \/ \E t \in TaskIds : DeleteVoiceDone(t)
    \/ \E t \in TaskIds : TimerStart(t)
    \/ \E t \in TaskIds : TimerWake(t)
    \/ \E t \in TaskIds : TimerCancelled(t)
    \/ \E m \in Members : CleanupFire(m)
    \/ Tick

SpecExternal == InitExternal /\ [][NextExternal]_vars

\* No listener and no deferred-deletion worker is alive.
AllQuiet == \A t \in TaskIds : tasks[t].kind = "idle"

\* C18: once every listener and worker that could discover it has ended, a
\* channel that no longer exists on the platform (deleted by the coordinator or
\* by somebody else) has no record in the in-memory index, no row in the store
\* and no deferred-deletion timer.
C18_DeletedChannelForgotten ==
    AllQuiet =>
        \A vc \in ChannelIds :
            vc \notin channels =>
                /\ vc \notin active_vcs /\ vc \notin db_active_vcs
                /\ delayed_delete_tasks[vc] = 0

\* ====================================================== capacity at provisioning
\* C19: a channel provisioned from the fixed(n) hub of SpecBot has
\* original_limit = n in its record and platform user limit n while no bot
\* event has been handled for it, and platform user limit n + 1 once the join
\* of its first bot has been handled.
C19_FixedCapacityRecorded ==
    \A vc \in active_vcs :
        (vc \in channels /\ vc_data[vc].vc_type = WITH_LIMIT) =>
            /\ vc_data[vc].original_limit = BotHub.user_limit
            /\ (\A m \in Bots : voice[m] # vc) => user_limit[vc] = BotHub.user_limit
            /\ (obs.last = <<"bot_join", vc>> /\ \E m \in Bots : voice[m] = vc)
                   => user_limit[vc] = BotHub.user_limit + 1

\* ================================================================ ban lists
\* Hub 1 gives its channels a control panel, hub 2 does not (NO_CONTROL).  The
\* store holds the ban lists the owners built in channels that are gone:
\* member 2 banned member 3 and member 3 banned member 2.
InitBans ==
    InitWith([h \in Hubs |-> IF h = 1 THEN SystemRow(0, PanelHub) ELSE SystemRow(4, RoomHub4)],
             MutualBans, Budget(2, 2, 1, 0, 0))

NextBans ==
    \/ Restore
    \/ \E m \in Members, ch \in ChannelIds : Running(0) /\ EnvJoin(m, ch)
    \/ \E m \in Members : Running(1) /\ EnvLeave(m)
    \/ \E t \in TaskIds : VsuStart(t)
    \/ \E t \in TaskIds : ProvCreateDone(t)
    \/ \E t \in TaskIds : ProvEditDone(t)
    \/ \E t \in TaskIds : ProvMoveDone(t)
    \/ \E t \in TaskIds : ProvControlDone(t)
    \/ \E t \in TaskIds : ProvPanelDone(t)
    \/ \E t \in TaskIds : TransferKickDone(t)
    \/ \E t \in TaskIds : TransferEditDone(t)
    \/ \E t \in TaskIds : TransferDeleteControlDone(t)
    \/ \E t \in TaskIds : TransferNewControlDone(t)
    \/ \E t \in TaskIds : TransferPanelDone(t)
    \/ \E t \in TaskIds : DeleteControlDone(t)
    \/ \E t \in TaskIds : DeleteVoiceDone(t)

SpecBans == InitBans /\ [][NextBans]_vars

\* C20: when no listener is running, every active channel denies connect to
\* each user on its owner's persisted ban list and names that user in the
\* record's banned_users, whatever the options of the hub it came from.
C20_BansFollowOwner ==
    NoHandlerRunning =>
        \A vc \in active_vcs :
            vc \in channels =>
                \A u \in db_banned[vc_data[vc].owner_id] :
                    u \in deny_connect[vc] /\ u \in vc_data[vc].banned_users

\* ======================================================= one timer per channel
\* The deferred-deletion workers of channel vc that wait to run or sleep.
PendingTimers(vc) ==
    {t \in TaskIds : /\ tasks[t].kind = "timer" /\ tasks[t].vc = vc
                     /\ tasks[t].pc \in {"tm_start", "tm_sleep"}}

FailHub == SystemData(1, NO_LIMIT, 0, UNDER_HUB, 0, {NO_JOIN_LEAVE_LOG}, None, 0)

InitFail ==
    InitWith(OneHub(FailHub), [m \in Members |-> IF m = 1 THEN {3} ELSE {}],
             Budget(5, 0, 0, 0, 2))

NextFail ==
    \/ Restore
    \/ \E m \in Members, ch \in ChannelIds : Running(1) /\ EnvJoin(m, ch)
    \/ \E m \in Members : Running(1) /\ EnvLeave(m)
    \/ \E t \in TaskIds : VsuStart(t)
    \/ \E t \in TaskIds : LockAcquired(t)
    \/ \E t \in TaskIds : ProvCreateDone(t)
    \/ \E t \in TaskIds : ProvEditDone(t)
    \/ \E t \in TaskIds : ProvMoveDone(t)
    \/ \E t \in TaskIds : ProvControlDone(t)
    \/ \E t \in TaskIds : ProvPanelDone(t)
    \/ \E t \in TaskIds : ProvNameMsgDone(t)
    \/ \E t \in TaskIds : ProvCallFails(t)
    \/ \E t \in TaskIds : ProvStoreFails(t)
    \/ \E t \in TaskIds : DeleteControlDone(t)
    \/ \E t \in TaskIds : DeleteVoiceDone(t)

SpecFail == InitFail /\ [][NextFail]_vars

\* The coroutines inside `async with` on lock lk.
Holders(lk) ==
    {t \in TaskIds : tasks[t].kind = "vsu" /\ tasks[t].pc \in ProvPcs /\ tasks[t].lk = lk}

\* C22: whatever step of provisioning fails, no exception leaves
\* on_voice_state_update, a per-user lock is held only while a provisioning
\* sequence is running under it (a failed sequence has released it), and a
\* coroutine queued on a lock either waits for a running sequence or has been
\* woken, so the user's next hub join can provision again.
C22_FailureReleasesGuard ==
    /\ obs.escaped = {}
    /\ \A lk \in LockIds : lock_objs[lk].locked => Holders(lk) # {}
    /\ \A t \in TaskIds :
          tasks[t].pc = "lock_wait" =>
              \/ lock_objs[tasks[t].lk].locked
              \/ \E u \in TaskIds : tasks[u].pc = "lock_woken" /\ tasks[u].lk = tasks[t].lk

\* A platform failure was caught and a new provisioning sequence of the same
\* member is running under the lock, past the creation of its channel.
C22_Witness ==
    /\ "HTTPException" \in obs.caught
    /\ \E t \in TaskIds :
          /\ At(t, "vsu", "p_ctrl") /\ tasks[t].member = 1
          /\ lock_objs[tasks[t].lk].locked
          /\ tasks[t].vc \in active_vcs

\* C23: once the startup reconciliation has run, every stored configuration of
\* the served guild whose hub channel exists is in the in-memory index with its
\* own settings, so that handle_vc_join finds it when a member joins that hub,
\* also when two hubs place their channels in the same category.
C23_ExistingHubIsIndexed ==
    restored =>
        \A h \in Hubs :
            (Stored(h) /\ db_vc_systems[h].guild_id \in ConnectedGuilds /\ h \in channels)
                => \E k \in Fixed : vc_systems[k] = db_vc_systems[h].data

\* ================================================================== moves
\* C24: when the handler of a move event (the member went from active channel A
\* straight to another channel) ends, and that event took the last human out
\* of A, nobody has come back and no deletion guard is in force, then the leave
\* processing has taken place: A no longer exists and has no record.
C24_MoveEmptiesSource ==
    [][\A t \in TaskIds :
          LET a == tasks[t].before
          IN  (/\ EmptyingHandled(t)
               /\ tasks[t].after # 0
               /\ a \in voice_ids
               /\ ~GuardInForce(a))
              => (a \notin channels' /\ a \notin active_vcs')]_vars

\* ============================================================ hide when full
\* A fixed(2) hub whose channels are hidden from @everyone while they are full.
\* Every event is handled before the next one arrives.
HideHub == SystemData(1, WITH_LIMIT, 2, UNDER_HUB, 0,
                      {HIDE_FULL, NO_CONTROL, NO_JOIN_LEAVE_LOG, LOCK_NAME}, "room", 0)

InitHide == InitWith(OneHub(HideHub), NoBans, Budget(0, 3, 2, 1, 0))

NextHide ==
    \/ Restore
    \/ \E m \in Members, ch \in ChannelIds : Running(0) /\ EnvJoin(m, ch)
    \/ \E m \in Members : Running(0) /\ EnvLeave(m)
    \/ \E m \in Members, ch \in ChannelIds : Running(0) /\ EnvMove(m, ch)
    \/ \E t \in TaskIds : VsuStart(t)
    \/ \E t \in TaskIds : ProvCreateDone(t)
    \/ \E t \in TaskIds : ProvMoveDone(t)
    \/ \E t \in TaskIds : JoinHideDone(t)
    \/ \E t \in TaskIds : LeaveShowDone(t)
    \/ \E t \in TaskIds : MoveSleepDone(t)
    \/ \E t \in TaskIds : DeleteVoiceDone(t)

SpecHide == InitHide /\ [][NextHide]_vars

\* The voice channels @everyone is denied to view.
hidden == {c \in ChannelIds : everyone_ow[c].view_channel = "False"}

\* Channel vc is full: its live limit is positive and reached.
Full(vc) == user_limit[vc] > 0 /\ Len(ChannelMembers(St, vc)) >= user_limit[vc]

\* C25: when every join and leave has been processed, an existing channel with
\* the hide-when-full option and a positive limit is hidden from @everyone
\* exactly when its occupancy has reached the live limit, and a channel without
\* the option or with limit 0 is never hidden by the toggle.
C25_HiddenIffFull ==
    NoHandlerRunning =>
        \A vc \in active_vcs :
            vc \in channels =>
                IF HIDE_FULL \in vc_data[vc].options /\ user_limit[vc] > 0
                THEN (vc \in hidden) <=> Full(vc)
                ELSE vc \notin hidden

\* ==================================================== transfers that are skipped
\* Hub 1 hands its channels on; hub 2 carries the no-ownership-transfer option.
\* Both give their channels a control panel.
KeepHub == SystemData(2, NO_LIMIT, 0, UNDER_HUB, 0,
                      {NO_JOIN_LEAVE_LOG, LOCK_NAME, NO_OWNERSHIP_TRANSFER}, "keep", 0)

InitKeep ==
    InitWith([h \in Hubs |-> IF h = 1 THEN SystemRow(0, PanelHub) ELSE SystemRow(0, KeepHub)],
             NoBans, Budget(2, 2, 0, 0, 0))

\* Members connect while no coroutine is running and leave while at most one is.
NextKeep ==
    \/ Restore
    \/ \E m \in Members, ch \in ChannelIds : Running(0) /\ EnvJoin(m, ch)
    \/ \E m \in Members : Running(1) /\ EnvLeave(m)
    \/ \E t \in TaskIds : VsuStart(t)
    \/ \E t \in TaskIds : ProvCreateDone(t)
    \/ \E t \in TaskIds : ProvMoveDone(t)
    \/ \E t \in TaskIds : ProvControlDone(t)
    \/ \E t \in TaskIds : ProvPanelDone(t)
    \/ \E t \in TaskIds : TransferEditDone(t)
    \/ \E t \in TaskIds : TransferDeleteControlDone(t)
    \/ \E t \in TaskIds : TransferNewControlDone(t)
    \/ \E t \in TaskIds : TransferPanelDone(t)
    \/ \E t \in TaskIds : DeleteControlDone(t)
    \/ \E t \in TaskIds : DeleteVoiceDone(t)

SpecKeep == InitKeep /\ [][NextKeep]_vars

\* The positions of on_voice_state_update from which line 262 can be reached
\* without a further await, and those inside transfer_ownership_on_leave.
BeforeTransfer == {"start", "j_log", "j_text", "j_hide", "l_log", "l_text"}
InsideTransfer == {"t_kick", "t_edit", "t_delctrl", "t_newctrl", "t_panel"}

\* Handler t serves the departure of the owner of its channel, has not yet
\* passed line 262, and the channel keeps its owner by option or holds no human.
TransferIsSkipped(t) ==
    LET b == tasks[t].before
    IN  /\ tasks[t].kind = "vsu" /\ tasks[t].pc \in BeforeTransfer
        /\ b \in active_vcs
        /\ tasks[t].member = vc_data[b].owner_id
        /\ \/ NO_OWNERSHIP_TRANSFER \in vc_data[b].options
           \/ NonBotMembers(St, b) = <<>>

\* C26: a step of the handler of an owner's departure, taken while the channel
\* has the no-ownership-transfer option or holds no human, leaves owner_id,
\* banned_users and control_channel_id of the record as they were, deletes and
\* creates no channel, and does not enter the transfer.
C26_SkippedTransferChangesNothing ==
    [][\A t \in TaskIds :
          (TransferIsSkipped(t) /\ tasks'[t] # tasks[t]) =>
              LET b == tasks[t].before
              IN  /\ channels' = channels
                  /\ tasks'[t].pc \notin InsideTransfer
                  /\ b \in active_vcs' =>
                        /\ vc_data'[b].owner_id = vc_data[b].owner_id
                        /\ vc_data'[b].banned_users = vc_data[b].banned_users
                        /\ vc_data'[b].control_channel_id = vc_data[b].control_channel_id]_vars

\* An owner has left a channel of hub 2 with another human inside: the record
\* still names the owner and the control channel stands.
C26_Witness ==
    /\ NoHandlerRunning
    /\ \E b \in active_vcs :
          /\ NO_OWNERSHIP_TRANSFER \in vc_data[b].options
          /\ b \in channels /\ vc_data[b].control_channel_id \in channels
          /\ voice[vc_data[b].owner_id] # b
          /\ NonBotMembers(St, b) # <<>>

\* ===================================================== permission overwrites
\* The overwrites computed at provisioning, looked at on their own.
RolesInput(h, v, g) == [kind |-> "roles", hidden_roles |-> h, vc_roles |-> v, guild_roles |-> g]

InitOverwrites ==
    \E h \in SUBSET Roles, v \in SUBSET Roles, g \in SUBSET Roles :
        InitCalc(OneHub(PanelHub), NoBans, Budget(0, 0, 0, 0, 0), RolesInput(h, v, g))

\* Lines 442-482 run for the hub's filters.
ComputeOverwrites ==
    /\ calc # NoCalc /\ calc.kind = "roles"
    /\ Commit([St EXCEPT !.calc =
                  [kind |-> "overwrites",
                   hidden_roles |-> calc.hidden_roles, vc_roles |-> calc.vc_roles,
                   guild_roles |-> calc.guild_roles,
                   ow |-> overwrites(calc.hidden_roles, calc.vc_roles, calc.guild_roles)]])

NextOverwrites == ComputeOverwrites

SpecOverwrites == InitOverwrites /\ [][NextOverwrites]_vars

Computed == calc # NoCalc /\ calc.kind = "overwrites"

\* C27: in the overwrites computed at provisioning, (a) with a visibility-role
\* filter @everyone has view and connect denied and only the filter roles and
\* the bot have view; (b) with a participant-role filter connect is granted to
\* participant roles only, and a role the visibility step did not make visible
\* is not granted view; (c) with a participant filter alone @everyone keeps view
\* and loses connect.
C27_OverwritesFollowFilters ==
    Computed =>
        LET ow == calc.ow
            h  == calc.hidden_roles
            v  == calc.vc_roles
        IN  /\ h # {} =>
                  /\ ow[DEFAULT_ROLE] = PermissionOverwrite("False", "False")
                  /\ ow[ME].view_channel = "True"
                  /\ \A r \in Roles : ow[r].view_channel = "True" => r \in h
            /\ v # {} =>
                  /\ \A r \in Roles \cup {DEFAULT_ROLE} : ow[r].connect = "True" => r \in v
                  /\ \A r \in Roles :
                        (h # {} /\ r \notin h) => ow[r].view_channel # "True"
            /\ (v # {} /\ h = {}) => ow[DEFAULT_ROLE] = PermissionOverwrite("True", "False")

\* ============================================================ retry_on_rate_limit
\* retry_on_rate_limit (lines 65-87) receives a coroutine object and awaits it
\* in a loop.  `answers` is what the platform answers to the first, second, ...
\* execution of the wrapped call; `awaited` tells that the coroutine object has
\* been run to its end, after which Python refuses to await it again
\* (RuntimeError: cannot reuse already awaited coroutine).
max_retries == 5
Answers == {"ok", "RateLimited", "HTTPException429", "HTTPException500"}
RateLimitSignals == {"RateLimited", "HTTPException429"}

RetryInput(answers) ==
    [kind |-> "retry", pc |-> "await", attempt |-> 0, awaited |-> FALSE, executed |-> 0,
     answers |-> answers, outcome |-> "none"]

InitRetry ==
    \E answers \in [1 .. max_retries -> Answers] :
        InitCalc(OneHub(PanelHub), NoBans, Budget(0, 0, 0, 0, 0), RetryInput(answers))

\* Lines 68-87: `await coro` of attempt number calc.attempt comes back.
RetryAwaitDone ==
    /\ calc # NoCalc /\ calc.kind = "retry" /\ calc.pc = "await"
    /\ LET got == IF calc.awaited THEN "RuntimeError"
                  ELSE calc.answers[calc.executed + 1]
           c1  == [calc EXCEPT !.awaited = TRUE,
                               !.executed = IF calc.awaited THEN @ ELSE @ + 1]
       IN  Commit([St EXCEPT !.calc =
              CASE got = "ok" -> [c1 EXCEPT !.pc = "returned", !.outcome = "ok"]
                [] got \in RateLimitSignals /\ calc.attempt < max_retries - 1 ->
                                    [c1 EXCEPT !.pc = "sleep"]
                [] OTHER -> [c1 EXCEPT !.pc = "raised", !.outcome = got]])

\* asyncio.sleep of line 74 or 81 is over: the next round of the loop.
RetrySleepDone ==
    /\ calc # NoCalc /\ calc.kind = "retry" /\ calc.pc = "sleep"
    /\ Commit([St EXCEPT !.calc.pc = "await", !.calc.attempt = @ + 1])

NextRetry == RetryAwaitDone \/ RetrySleepDone

SpecRetry == InitRetry /\ [][NextRetry]_vars

RetryOver == calc # NoCalc /\ calc.kind = "retry" /\ calc.pc \in {"returned", "raised"}

\* The first answer that is not a rate-limit signal, or the last answer when
\* all of them are.
RECURSIVE Decisive(_, _)
Decisive(answers, k) ==
    IF k = max_retries \/ answers[k] \notin RateLimitSignals THEN k
    ELSE Decisive(answers, k + 1)

\* C28: the wrapper makes at most max_retries attempts; when every attempt is
\* answered by a rate-limit signal the last signal is raised to the caller; a
\* call that succeeds on a retry returns its result; a failure that is no
\* rate-limit signal is raised at the attempt that met it, on the first attempt
\* without any retry.
C28_RetryOutcome ==
    /\ (calc # NoCalc /\ calc.kind = "retry") => calc.attempt < max_retries
    /\ RetryOver =>
          LET k == Decisive(calc.answers, 1)
          IN  /\ calc.outcome = calc.answers[k]
              /\ calc.attempt + 1 = k
              /\ calc.pc = IF calc.answers[k] = "ok" THEN "returned" ELSE "raised"

\* ================================================== names across a restart
\* One locked-name hub; the process may be stopped and started again at a quiet
\* moment.  The platform and the store outlive the process, memory does not.
Restart ==
    /\ restored /\ Running(0) /\ budget[0] > 0
    /\ Commit([St EXCEPT !.budget[0] = @ - 1,
                         !.vc_systems = [k \in Fixed |-> NoSystem],
                         !.active_vcs = {},
                         !.vc_data = [c \in ChannelIds |-> EmptyData],
                         !.vc_creation_locks = [m \in Members |-> 0],
                         !.lock_objs = [l \in LockIds |-> NoLock],
                         !.next_lock = 1,
                         !.cleanups = [m \in Members |-> <<>>],
                         !.delayed_delete_tasks = [c \in ChannelIds |-> 0],
                         !.restored = FALSE])

InitRestart == InitWith(OneHub(RoomHub), NoBans, Budget(2, 2, 2, 0, 1))

NextRestart ==
    \/ Restore
    \/ Restart
    \/ \E m \in Members, h \in Hubs : JoinHub(m, h)
    \/ \E m \in Members : Disconnect(m)
    \/ \E t \in TaskIds : VsuStart(t)
    \/ \E t \in TaskIds : ProvCreateDone(t)
    \/ \E t \in TaskIds : ProvMoveDone(t)
    \/ \E t \in TaskIds : DeleteVoiceDone(t)

SpecRestart == InitRestart /\ [][NextRestart]_vars

\* The numbers carried by the names of the active channels of one base name
\* and category.
NumbersInNames(base, cat) ==
    {obs.names[v][3] :
        v \in {x \in active_vcs \cap channels :
                  /\ obs.names[x] # <<>>
                  /\ obs.names[x][1] = base /\ obs.names[x][2] = cat}}

\* C29: a locked-name channel gets the smallest number that no active channel
\* of the same base name and category carries in its name, also when those
\* channels were created before the process was restarted.
C29_SuffixUnusedAfterRestart ==
    [][NameGiven =>
          obs'.last[5] = SmallestUnused(NumbersInNames(obs'.last[3], obs'.last[4]))]_vars

\* ================================================= names under concurrent joins
\* One locked-name hub; a second member may enter the hub while the handler of
\* the first is still at work.  Each member has a creation lock of their own.
InitRace == InitWith(OneHub(RoomHub), NoBans, Budget(2, 2, 0, 0, 0))

NextRace ==
    \/ Restore
    \/ \E m \in Members, h \in Hubs : Running(1) /\ EnvJoin(m, h)
    \/ \E m \in Members : Disconnect(m)
    \/ \E t \in TaskIds : VsuStart(t)
    \/ \E t \in TaskIds : ProvCreateDone(t)
    \/ \E t \in TaskIds : ProvMoveDone(t)
    \/ \E t \in TaskIds : DeleteVoiceDone(t)

SpecRace == InitRace /\ [][NextRace]_vars

\* C30: whatever the interleaving of provisioning sequences of different users
\* on locked-name hubs, two channels that are active at the same time with the
\* same base name and category do not carry the same number.
C30_NoSharedSuffix ==
    \A a, b \in active_vcs \cap channels :
        (/\ a # b
         /\ vc_data[a].base_name # None
         /\ vc_data[a].base_name = vc_data[b].base_name
         /\ vc_data[a].category_id = vc_data[b].category_id)
            => vc_data[a].name_number # vc_data[b].name_number

\* ===================================================== companions of a deleted channel
\* The text or control channels on the platform: every created channel that is
\* not a voice channel.
Companions == channels \ (Fixed \cup voice_ids)

\* C31: when no coroutine is running, every companion text or control channel
\* on the platform belongs to an active channel that still exists; none is left
\* over from a channel the coordinator has deleted, however provisioning and
\* deletion interleaved.
C31_NoCompanionOutlivesChannel ==
    (\A t \in TaskIds : tasks[t].kind = "idle") =>
        \A c \in Companions :
            \E b \in active_vcs \cap channels :
                c \in {vc_data[b].text_channel_id, vc_data[b].control_channel_id}

\* ========================================================= timers and records
\* C32: every entry of delayed_delete_tasks belongs to a channel id that has a
\* record in active_vcs.
C32_TimerHasRecord ==
    \A c \in ChannelIds : delayed_delete_tasks[c] # 0 => c \in active_vcs

\* ============================================================ the state panel
\* VCStateControlView: the buttons of the control panel.  interaction_check
\* (lines 3128-3133) lets the owner of an active channel through.  A handler
\* reads vc.overwrites, changes entries and awaits vc.edit with the whole dict;
\* the reply to the interaction that follows changes nothing and is left out.
\* Of a member's overwrite only connect=False is kept (deny_connect).
PressOn(s, vc, pc, everyone, denied, user) ==
    /\ restored /\ budget[0] > 0
    /\ vc \in active_vcs /\ vc \in channels
    /\ vc_data[vc].control_channel_id \in channels
    /\ Commit(Spawn([s EXCEPT !.budget[0] = @ - 1],
                    [IdleTask EXCEPT !.kind = "ui", !.pc = pc, !.vc = vc,
                                     !.member = vc_data[vc].owner_id, !.target = user,
                                     !.perm = everyone, !.ow = denied]))

Press(vc, pc, everyone, denied) == PressOn(St, vc, pc, everyone, denied, 0)

\* lock_vc (lines 3135-3149), up to vc.edit.
LockPress(vc) ==
    Press(vc, "lk_edit", PermissionOverwrite("None", "False"),
          deny_connect[vc] \ vc_data[vc].allowed_users)

\* unlock_vc (lines 3151-3165), up to vc.edit.
UnlockPress(vc) ==
    Press(vc, "ul_edit", PermissionOverwrite("None", "True"),
          deny_connect[vc] \cup vc_data[vc].banned_users)

\* show_vc (lines 3198-3270), up to vc.edit.  system_data is the dict the record
\* refers to; a restored record has none.
ShowPress(vc) ==
    LET d == vc_data[vc]
        hidden_roles == IF d.system_data = 0 THEN {}
                        ELSE vc_systems[d.system_data].hidden_roles
    IN  Press(vc, "sh_edit",
              PermissionOverwrite(IF hidden_roles # {} THEN "False" ELSE "True",
                                  everyone_ow[vc].connect),
              deny_connect[vc] \cup d.banned_users
                  \cup (IF d.is_locked
                        THEN Humans \ (d.allowed_users \cup d.banned_users) ELSE {}))

\* hide_vc (lines 3272-3294), up to vc.edit.
HidePress(vc) ==
    Press(vc, "hd_edit", PermissionOverwrite("False", everyone_ow[vc].connect),
          deny_connect[vc])

\* VCBanUserModal.on_submit with ban=True (lines 3393-3422), up to vc.edit: the
\* record and the owner's stored ban list change at once.
BanSubmit(vc, user) ==
    LET owner_id == vc_data[vc].owner_id
    IN  /\ owner_id \in Members
        /\ PressOn([St EXCEPT !.vc_data[vc].banned_users = @ \cup {user},
                                !.db_banned[owner_id] = @ \cup {user},
                                !.vc_data[vc].allowed_users = @ \ {user}],
                   vc, "bn_edit", everyone_ow[vc], deny_connect[vc] \cup {user}, user)

\* The same modal with ban=False (lines 3436-3455), up to vc.edit.
UnbanSubmit(vc, user) ==
    LET owner_id == vc_data[vc].owner_id
    IN  /\ owner_id \in Members
        /\ PressOn([St EXCEPT !.vc_data[vc].banned_users = @ \ {user},
                                !.db_banned[owner_id] = @ \ {user}],
                   vc, "ub_edit", everyone_ow[vc], deny_connect[vc] \ {user}, user)

\* VCAllowUserModal.on_submit (lines 3479-3506), up to vc.edit; a banned user is
\* refused at line 3497.
AllowSubmit(vc, user) ==
    /\ user \notin vc_data[vc].banned_users
    /\ PressOn([St EXCEPT !.vc_data[vc].allowed_users = @ \cup {user}],
               vc, "al_edit", everyone_ow[vc], deny_connect[vc] \ {user}, user)

\* VCRemoveAllowUserModal.on_submit (lines 3529-3563), up to vc.edit.
RemoveAllowSubmit(vc, user) ==
    PressOn([St EXCEPT !.vc_data[vc].allowed_users = @ \ {user}],
            vc, "ra_edit", everyone_ow[vc], deny_connect[vc] \ {user}, user)

\* vc.edit of line 3424 answers; a banned user inside is disconnected next.
BanEditDone(t) ==
    /\ At(t, "ui", "bn_edit")
    /\ LET vc == tasks[t].vc
       IN  Commit(IF ~ChannelExists(St, vc) THEN Finish(St, t)
                  ELSE LET s1 == [St EXCEPT !.everyone_ow[vc] = tasks[t].perm,
                                            !.deny_connect[vc] = tasks[t].ow]
                       IN  IF voice[tasks[t].target] = vc
                           THEN [s1 EXCEPT !.tasks[t].pc = "bn_kick"]
                           ELSE Finish(s1, t))

\* user.move_to(None) of line 3429 answers: the user is disconnected, or had
\* left already (the error is logged at line 3431).
BanKickDone(t) ==
    /\ At(t, "ui", "bn_kick")
    /\ LET x  == tasks[t].target
           s1 == IF voice[x] # 0 THEN VoiceEvent(St, x, 0) ELSE St
       IN  Commit(IF s1.ok THEN Finish(s1, t) ELSE s1)

\* vc.edit of a panel handler answers; lock_vc and unlock_vc then set is_locked
\* (lines 3148, 3164).  NotFound or KeyError ends the handler.
PanelEditDone(t) ==
    /\ tasks[t].kind = "ui"
    /\ tasks[t].pc \in {"lk_edit", "ul_edit", "sh_edit", "hd_edit", "ub_edit", "al_edit", "ra_edit"}
    /\ LET vc == tasks[t].vc
           s1 == [St EXCEPT !.everyone_ow[vc] = tasks[t].perm,
                            !.deny_connect[vc] = tasks[t].ow]
       IN  Commit(IF ~ChannelExists(St, vc) THEN Finish(St, t)
                  ELSE IF tasks[t].pc \notin {"lk_edit", "ul_edit"} \/ vc \notin active_vcs
                       THEN Finish(s1, t)
                  ELSE Finish([s1 EXCEPT !.vc_data[vc].is_locked =
                                             (tasks[t].pc = "lk_edit")], t))

\* A fixed(2) hub with a control panel whose channels hide while they are full.
StateHub == SystemData(1, WITH_LIMIT, 2, UNDER_HUB, 0,
                       {HIDE_FULL, NO_JOIN_LEAVE_LOG, LOCK_NAME, NO_OWNERSHIP_TRANSFER},
                       "room", 0)

InitState == InitWith(OneHub(StateHub), NoBans, Budget(2, 2, 0, 0, 2))

\* Members and the owner at the panel act one after the other.
NextState ==
    \/ Restore
    \/ \E m \in Members, ch \in ChannelIds : Running(0) /\ EnvJoin(m, ch)
    \/ \E m \in Members : Running(0) /\ EnvLeave(m)
    \/ \E vc \in ChannelIds : Running(0) /\ LockPress(vc)
    \/ \E vc \in ChannelIds : Running(0) /\ UnlockPress(vc)
    \/ \E vc \in ChannelIds : Running(0) /\ ShowPress(vc)
    \/ \E vc \in ChannelIds : Running(0) /\ HidePress(vc)
    \/ \E t \in TaskIds : PanelEditDone(t)
    \/ \E t \in TaskIds : VsuStart(t)
    \/ \E t \in TaskIds : ProvCreateDone(t)
    \/ \E t \in TaskIds : ProvMoveDone(t)
    \/ \E t \in TaskIds : ProvControlDone(t)
    \/ \E t \in TaskIds : ProvPanelDone(t)
    \/ \E t \in TaskIds : JoinHideDone(t)
    \/ \E t \in TaskIds : LeaveShowDone(t)
    \/ \E t \in TaskIds : DeleteControlDone(t)
    \/ \E t \in TaskIds : DeleteVoiceDone(t)

SpecState == InitState /\ [][NextState]_vars

\* C33: whenever no handler is running and an existing active channel has
\* is_locked set, the @everyone role is denied connect on it.
C33_LockedDeniesConnect ==
    AllQuiet =>
        \A vc \in active_vcs \cap channels :
            vc_data[vc].is_locked => everyone_ow[vc].connect = "False"

\* ===================================================== channels behind a role
\* The same hub with a visibility-role filter: only role r1 may see its channels.
FilterHub == [StateHub EXCEPT !.hidden_roles = {"r1"}]

InitFilter == InitWith(OneHub(FilterHub), NoBans, Budget(2, 2, 0, 0, 2))

SpecFilter == InitFilter /\ [][NextState]_vars

\* C34: on an existing active channel provisioned from a hub with a
\* visibility-role filter, the @everyone role is denied view in every state.
C34_FilteredNeverVisible ==
    \A vc \in active_vcs \cap channels :
        LET sys == vc_data[vc].system_data
        IN  (sys # 0 /\ vc_systems[sys].hidden_roles # {})
               => everyone_ow[vc].view_channel = "False"

\* ===================================================== ban list and allow list
\* A hub with a control panel whose channels are handed on; member 2 has banned
\* member 3 and member 3 has banned member 2 in earlier channels.
InitLists == InitWith(OneHub(PanelHub), MutualBans, Budget(2, 1, 0, 0, 2))

NextLists ==
    \/ Restore
    \/ \E m \in Members, ch \in ChannelIds : Running(0) /\ EnvJoin(m, ch)
    \/ \E m \in Members : Running(0) /\ EnvLeave(m)
    \/ \E vc \in ChannelIds, u \in Humans : Running(0) /\ BanSubmit(vc, u)
    \/ \E vc \in ChannelIds, u \in Humans : Running(0) /\ UnbanSubmit(vc, u)
    \/ \E vc \in ChannelIds, u \in Humans : Running(0) /\ AllowSubmit(vc, u)
    \/ \E vc \in ChannelIds, u \in Humans : Running(0) /\ RemoveAllowSubmit(vc, u)
    \/ \E t \in TaskIds : PanelEditDone(t)
    \/ \E t \in TaskIds : BanEditDone(t)
    \/ \E t \in TaskIds : BanKickDone(t)
    \/ \E t \in TaskIds : VsuStart(t)
    \/ \E t \in TaskIds : ProvCreateDone(t)
    \/ \E t \in TaskIds : ProvEditDone(t)
    \/ \E t \in TaskIds : ProvMoveDone(t)
    \/ \E t \in TaskIds : ProvControlDone(t)
    \/ \E t \in TaskIds : ProvPanelDone(t)
    \/ \E t \in TaskIds : TransferKickDone(t)
    \/ \E t \in TaskIds : TransferEditDone(t)
    \/ \E t \in TaskIds : TransferDeleteControlDone(t)
    \/ \E t \in TaskIds : TransferNewControlDone(t)
    \/ \E t \in TaskIds : TransferPanelDone(t)
    \/ \E t \in TaskIds : DeleteControlDone(t)
    \/ \E t \in TaskIds : DeleteVoiceDone(t)

SpecLists == InitLists /\ [][NextLists]_vars

\* C35: the ban list and the allow list of an active channel have no user in
\* common.
C35_BannedAndAllowedDisjoint ==
    \A vc \in active_vcs : vc_data[vc].banned_users \cap vc_data[vc].allowed_users = {}
\* ======================================================= the owner is present
\* VCOwnershipTransferModal.on_submit (lines 3876-3920): the named user must be
\* a human member of the channel; owner_id changes at once, then the control
\* channel's permissions are edited and a notice is posted there.
TransferSubmit(vc, user) ==
    /\ restored /\ budget[0] > 0
    /\ vc \in active_vcs /\ vc \in channels
    /\ vc_data[vc].control_channel_id \in channels
    /\ user \in Humans /\ voice[user] = vc
    /\ Commit(Spawn([St EXCEPT !.budget[0] = @ - 1,
                               !.vc_data[vc].owner_id = user],
                    [IdleTask EXCEPT !.kind = "ui", !.pc = "mt_clear", !.vc = vc,
                                     !.member = vc_data[vc].owner_id,
                                     !.target = user]))

\* An await of lines 3913-3915 answers; NotFound ends the handler (line 3919).
ManualTransferDone(t) ==
    /\ tasks[t].kind = "ui"
    /\ tasks[t].pc \in {"mt_clear", "mt_grant", "mt_send"}
    /\ LET vc == tasks[t].vc
           cc == IF vc \in active_vcs THEN vc_data[vc].control_channel_id ELSE 0
       IN  Commit(IF cc \notin channels \/ tasks[t].pc = "mt_send" THEN Finish(St, t)
                  ELSE [St EXCEPT !.tasks[t].pc =
                            IF tasks[t].pc = "mt_clear" THEN "mt_grant" ELSE "mt_send"])

\* No listener and no panel handler is running; deferred-deletion workers may
\* be asleep.
NoHandler == \A t \in TaskIds : tasks[t].kind \in {"idle", "timer"}

\* A hub with a control panel and a deletion guard of one minute.
OwnerHub == SystemData(1, NO_LIMIT, 0, UNDER_HUB, 0,
                       {NO_JOIN_LEAVE_LOG, LOCK_NAME}, "room", 1)

InitOwner == InitWith(OneHub(OwnerHub), NoBans, Budget(2, 1, 0, 0, 1))

NextOwner ==
    \/ Restore
    \/ \E m \in Members, ch \in ChannelIds : NoHandler /\ EnvJoin(m, ch)
    \/ \E m \in Members : NoHandler /\ EnvLeave(m)
    \/ \E vc \in ChannelIds, u \in Humans : NoHandler /\ TransferSubmit(vc, u)
    \/ \E t \in TaskIds : ManualTransferDone(t)
    \/ \E t \in TaskIds : VsuStart(t)
    \/ \E t \in TaskIds : ProvCreateDone(t)
    \/ \E t \in TaskIds : ProvMoveDone(t)
    \/ \E t \in TaskIds : ProvControlDone(t)
    \/ \E t \in TaskIds : ProvPanelDone(t)
    \/ \E t \in TaskIds : TransferEditDone(t)
    \/ \E t \in TaskIds : TransferDeleteControlDone(t)
    \/ \E t \in TaskIds : TransferNewControlDone(t)
    \/ \E t \in TaskIds : TransferPanelDone(t)
    \/ \E t \in TaskIds : DeleteControlDone(t)
    \/ \E t \in TaskIds : DeleteVoiceDone(t)
    \/ \E t \in TaskIds : TimerStart(t)
    \/ \E t \in TaskIds : TimerWake(t)
    \/ \E t \in TaskIds : TimerCancelled(t)
    \/ Tick

SpecOwner == InitOwner /\ [][NextOwner]_vars

\* C36: while no handler is running, an active channel without the
\* no-ownership-transfer option that has a human member inside is owned by a
\* human member who is inside.
C36_OwnerIsPresentHuman ==
    NoHandler =>
        \A vc \in active_vcs \cap channels :
            (/\ NO_OWNERSHIP_TRANSFER \notin vc_data[vc].options
             /\ \E m \in Humans : voice[m] = vc)
                => /\ vc_data[vc].owner_id \in Humans
                   /\ voice[vc_data[vc].owner_id] = vc
\* ========================================================= the ticket subsystem
\* src/cogs/ticketmanager.py, one guild.  calc holds the cog's dict
\* active_tickets (a ticket channel id without a record maps to NoTicket), the
\* ticket channels that exist on the platform, and the coroutines in flight.  The
\* channel edits of _edit_closed_channel and _edit_reopened_channel change names
\* and overwrites only and are left out.
TicketUsers == {1, 2}
MaxTickets  == 3                 \* ticket channels ever created
MaxPresses  == 4                 \* button presses
MaxPending  == 2                 \* coroutines in flight
TicketIds   == 1..MaxTickets

NoTicket == [owner_id |-> 0, is_closed |-> FALSE]

TicketInput ==
    [kind |-> "tickets", active_tickets |-> [c \in TicketIds |-> NoTicket],
     existing |-> {}, next |-> 1, pending |-> <<>>, presses |-> MaxPresses]

InitTickets == InitCalc(OneHub(PanelHub), NoBans, Budget(0, 0, 0, 0, 0), TicketInput)

TicketsOn == calc # NoCalc /\ calc.kind = "tickets"

\* A button is pressed: one press is spent and, unless the handler refuses, a
\* coroutine waits for interaction.response.send_message to answer.
TicketPress(refused, pc, user, ch) ==
    /\ TicketsOn /\ calc.presses > 0 /\ Len(calc.pending) < MaxPending
    /\ Commit([St EXCEPT !.calc.presses = @ - 1,
                         !.calc.pending =
                             IF refused THEN @
                             ELSE Append(@, [pc |-> pc, user |-> user, ch |-> ch])])

\* The ticket of channel c counts against its owner (lines 854-857).
OpenTicket(c, user) ==
    /\ calc.active_tickets[c].owner_id = user
    /\ ~calc.active_tickets[c].is_closed
    /\ c \in calc.existing

\* TicketButtonView.create_ticket (lines 852-866), up to the reply.
CreatePress(user) ==
    /\ TicketsOn
    /\ TicketPress(\E c \in TicketIds : OpenTicket(c, user), "b_reply", user, 0)

\* TicketControlView.close_ticket (lines 885-897) pressed by the ticket's owner.
ClosePress(ch) ==
    /\ TicketsOn /\ ch \in calc.existing /\ calc.active_tickets[ch] # NoTicket
    /\ TicketPress(calc.active_tickets[ch].is_closed, "x_reply",
                   calc.active_tickets[ch].owner_id, ch)

\* TicketControlView.reopen_ticket (lines 900-912).
ReopenPress(ch) ==
    /\ TicketsOn /\ ch \in calc.existing /\ calc.active_tickets[ch] # NoTicket
    /\ TicketPress(~calc.active_tickets[ch].is_closed, "r_reply",
                   calc.active_tickets[ch].owner_id, ch)

\* TicketControlView.delete_ticket (lines 915-923).
DeletePress(ch) ==
    /\ TicketsOn /\ ch \in calc.existing /\ calc.active_tickets[ch] # NoTicket
    /\ TicketPress(FALSE, "d_reply", calc.active_tickets[ch].owner_id, ch)

Drop(q, i) == SubSeq(q, 1, i - 1) \o SubSeq(q, i + 1, Len(q))

\* The coroutine at position i of pending stands at pc.
TicketAt(i, pc) == TicketsOn /\ i \in 1..Len(calc.pending) /\ calc.pending[i].pc = pc

\* The reply of line 863 answers; the task made at line 864 runs
\* TicketManager.create_ticket up to create_text_channel (line 198 or 200).
CreateReplyDone(i) ==
    /\ TicketAt(i, "b_reply")
    /\ Commit([St EXCEPT !.calc.pending[i].pc = "c_create"])

\* create_text_channel answers: the record is stored (lines 201-204) and the
\* greeting is sent (line 209).
CreateChannelDone(i) ==
    /\ TicketAt(i, "c_create") /\ calc.next <= MaxTickets
    /\ LET ch == calc.next
       IN  Commit([St EXCEPT !.calc.existing = @ \cup {ch},
                             !.calc.next = @ + 1,
                             !.calc.active_tickets[ch] =
                                 [owner_id |-> calc.pending[i].user, is_closed |-> FALSE],
                             !.calc.pending[i].pc = "c_send"])

\* channel.send of line 209 answers.
CreateSendDone(i) ==
    /\ TicketAt(i, "c_send")
    /\ Commit([St EXCEPT !.calc.pending = Drop(@, i)])

\* The reply of line 894 answers; the task made at line 895 runs close_ticket
\* with save_log=True (lines 213-219).
CloseReplyDone(i) ==
    /\ TicketAt(i, "x_reply")
    /\ LET ch == calc.pending[i].ch
       IN  Commit([St EXCEPT !.calc.active_tickets[ch].is_closed =
                                 IF calc.active_tickets[ch] = NoTicket THEN @ ELSE TRUE,
                             !.calc.pending = Drop(@, i)])

\* The reply of line 909 answers; the task made at line 910 runs reopen_ticket
\* (lines 255-261).
ReopenReplyDone(i) ==
    /\ TicketAt(i, "r_reply")
    /\ LET ch == calc.pending[i].ch
       IN  Commit([St EXCEPT !.calc.active_tickets[ch].is_closed =
                                 IF calc.active_tickets[ch] = NoTicket THEN @ ELSE FALSE,
                             !.calc.pending = Drop(@, i)])

\* The reply of line 920 answers; the task made at line 921 runs close_ticket
\* with save_log=False up to asyncio.sleep(5) (lines 213-222).
DeleteReplyDone(i) ==
    /\ TicketAt(i, "d_reply")
    /\ Commit([St EXCEPT !.calc.pending =
                  IF calc.active_tickets[calc.pending[i].ch] = NoTicket THEN Drop(@, i)
                  ELSE [@ EXCEPT ![i].pc = "d_sleep"]])

\* asyncio.sleep(5) of line 222 is over: channel.delete() is awaited.
DeleteSleepDone(i) ==
    /\ TicketAt(i, "d_sleep")
    /\ Commit([St EXCEPT !.calc.pending[i].pc = "d_delete"])

\* channel.delete() of line 223 answers: the record goes (lines 224-226);
\* NotFound ends the task before that.
DeleteChannelDone(i) ==
    /\ TicketAt(i, "d_delete")
    /\ LET ch == calc.pending[i].ch
       IN  Commit(IF ch \notin calc.existing
                  THEN [St EXCEPT !.calc.pending = Drop(@, i)]
                  ELSE [St EXCEPT !.calc.existing = @ \ {ch},
                                  !.calc.active_tickets[ch] = NoTicket,
                                  !.calc.pending = Drop(@, i)])

NextTickets ==
    \/ \E u \in TicketUsers : CreatePress(u)
    \/ \E c \in TicketIds : ClosePress(c)
    \/ \E c \in TicketIds : ReopenPress(c)
    \/ \E c \in TicketIds : DeletePress(c)
    \/ \E i \in 1..MaxPending : CreateReplyDone(i)
    \/ \E i \in 1..MaxPending : CreateChannelDone(i)
    \/ \E i \in 1..MaxPending : CreateSendDone(i)
    \/ \E i \in 1..MaxPending : CloseReplyDone(i)
    \/ \E i \in 1..MaxPending : ReopenReplyDone(i)
    \/ \E i \in 1..MaxPending : DeleteReplyDone(i)
    \/ \E i \in 1..MaxPending : DeleteSleepDone(i)
    \/ \E i \in 1..MaxPending : DeleteChannelDone(i)

SpecTickets == InitTickets /\ [][NextTickets]_vars

\* C37: a user has at most one ticket that is not closed and whose channel
\* exists.
C37_OneOpenTicketPerUser ==
    TicketsOn =>
        \A u \in TicketUsers :
            Cardinality({c \in TicketIds : OpenTicket(c, u)}) <= 1
\* ======================================================= the server-DM subsystem
\* src/cogs/serverdm.py, one guild whose DM category is configured.  calc holds
\* the cog's dict active_dms (a channel id without a record maps to NoDm), the
\* DM channels that exist on the platform, and the coroutines in flight.
DmUsers     == {1, 2, 3}
MaxDms      == 3                 \* DM channels ever created
MaxRequests == 3                 \* modal submissions and delete presses
DmIds       == 1..MaxDms

NoDm == [user1_id |-> 0, user2_id |-> 0, creator_id |-> 0]

DmInput ==
    [kind |-> "dms", active_dms |-> [c \in DmIds |-> NoDm],
     existing |-> {}, next |-> 1, pending |-> <<>>, requests |-> MaxRequests]

InitDms == InitCalc(OneHub(PanelHub), NoBans, Budget(0, 0, 0, 0, 0), DmInput)

DmsOn == calc # NoCalc /\ calc.kind = "dms"

DmAt(i, pc) == DmsOn /\ i \in 1..Len(calc.pending) /\ calc.pending[i].pc = pc

\* ServerDMModal.on_submit (lines 604-618), up to interaction.response.defer;
\* the creator cannot name themselves (lines 613-616).
DmSubmit(creator, target) ==
    /\ DmsOn /\ calc.requests > 0 /\ Len(calc.pending) < MaxPending
    /\ creator # target
    /\ Commit([St EXCEPT !.calc.requests = @ - 1,
                         !.calc.pending = Append(@, [pc |-> "m_defer", user |-> creator,
                                                     target |-> target, ch |-> 0])])

\* Channel c is a DM channel of users a and b (lines 136-137).
PairOf(dms, c, a, b) ==
    \/ dms[c].user1_id = a /\ dms[c].user2_id = b
    \/ dms[c].user1_id = b /\ dms[c].user2_id = a

\* defer answers; create_dm_channel runs up to create_text_channel (lines
\* 114-207): an existing channel of the pair is returned, records of channels
\* that are gone are dropped, a creator who is in a channel already is refused.
DmDeferDone(i) ==
    /\ DmAt(i, "m_defer")
    /\ LET a      == calc.pending[i].user
           b      == calc.pending[i].target
           dms    == calc.active_dms
           pruned == [c \in DmIds |-> IF c \in calc.existing THEN dms[c] ELSE NoDm]
       IN  Commit(
             IF \E c \in calc.existing : PairOf(dms, c, a, b)
             THEN [St EXCEPT !.calc.pending[i].pc = "m_followup"]
             ELSE IF \E c \in calc.existing : a \in {dms[c].user1_id, dms[c].user2_id}
             THEN [St EXCEPT !.calc.active_dms = pruned,
                             !.calc.pending[i].pc = "m_followup"]
             ELSE [St EXCEPT !.calc.active_dms = pruned,
                             !.calc.pending[i].pc = "dm_create"])

\* create_text_channel answers: the record is stored (lines 225-239) and the
\* notice is sent (line 252).
DmCreateDone(i) ==
    /\ DmAt(i, "dm_create") /\ calc.next <= MaxDms
    /\ LET ch == calc.next
       IN  Commit([St EXCEPT !.calc.existing = @ \cup {ch},
                             !.calc.next = @ + 1,
                             !.calc.active_dms[ch] =
                                 [user1_id |-> calc.pending[i].user,
                                  user2_id |-> calc.pending[i].target,
                                  creator_id |-> calc.pending[i].user],
                             !.calc.pending[i].pc = "dm_send"])

\* dm_channel.send answers; the modal reports with followup.send.
DmSendDone(i) ==
    /\ DmAt(i, "dm_send")
    /\ Commit([St EXCEPT !.calc.pending[i].pc = "m_followup"])

\* followup.send answers: the handler is over.
DmFollowupDone(i) ==
    /\ DmAt(i, "m_followup")
    /\ Commit([St EXCEPT !.calc.pending = Drop(@, i)])

\* DMDeleteView.delete_button pressed by the creator (lines 541-565), up to
\* interaction.response.defer.
DmDeletePress(ch) ==
    /\ DmsOn /\ calc.requests > 0 /\ Len(calc.pending) < MaxPending
    /\ ch \in calc.existing /\ calc.active_dms[ch] # NoDm
    /\ Commit([St EXCEPT !.calc.requests = @ - 1,
                         !.calc.pending = Append(@, [pc |-> "x_defer",
                                                     user |-> calc.active_dms[ch].creator_id,
                                                     target |-> 0, ch |-> ch])])

\* defer answers; delete_dm_channel (lines 285-295) drops the record of a
\* channel that is gone, or awaits channel.delete().
DmDeleteDeferDone(i) ==
    /\ DmAt(i, "x_defer")
    /\ LET ch == calc.pending[i].ch
       IN  Commit(IF ch \notin calc.existing
                  THEN [St EXCEPT !.calc.active_dms[ch] = NoDm,
                                  !.calc.pending[i].pc = "m_followup"]
                  ELSE [St EXCEPT !.calc.pending[i].pc = "x_delete"])

\* channel.delete() answers: the channel is gone and its record is dropped by
\* on_guild_channel_delete (lines 278-282) and by line 297; NotFound is caught
\* at line 301.
DmDeleteDone(i) ==
    /\ DmAt(i, "x_delete")
    /\ LET ch == calc.pending[i].ch
       IN  Commit(IF ch \notin calc.existing
                  THEN [St EXCEPT !.calc.pending[i].pc = "m_followup"]
                  ELSE [St EXCEPT !.calc.existing = @ \ {ch},
                                  !.calc.active_dms[ch] = NoDm,
                                  !.calc.pending[i].pc = "m_followup"])

NextDms ==
    \/ \E a, b \in DmUsers : DmSubmit(a, b)
    \/ \E c \in DmIds : DmDeletePress(c)
    \/ \E i \in 1..MaxPending : DmDeferDone(i)
    \/ \E i \in 1..MaxPending : DmCreateDone(i)
    \/ \E i \in 1..MaxPending : DmSendDone(i)
    \/ \E i \in 1..MaxPending : DmFollowupDone(i)
    \/ \E i \in 1..MaxPending : DmDeleteDeferDone(i)
    \/ \E i \in 1..MaxPending : DmDeleteDone(i)

SpecDms == InitDms /\ [][NextDms]_vars

\* C38: a member is the creator of at most one existing DM channel, and at most
\* one DM channel exists for a pair of members.
C38_OneDmPerCreatorAndPair ==
    DmsOn =>
        /\ \A a \in DmUsers :
              Cardinality({c \in calc.existing : calc.active_dms[c].creator_id = a}) <= 1
        /\ \A a, b \in DmUsers :
              a # b =>
                Cardinality({c \in calc.existing : PairOf(calc.active_dms, c, a, b)}) <= 1


====
